---- MODULE Spec2Model ----
(***************************************************************************)
(* pyXcute (xcute/__init__.py): the task dispatch / lifecycle engine.      *)
(*                                                                         *)
(* The Python call stack is modelled explicitly: `stack` is a sequence of  *)
(* frames (run, do_run, run_task and one frame kind per executor class),   *)
(* `ret` is what the callee handed back to the frame on top (still         *)
(* running, returned a value, or raised).  Every action is one step of the *)
(* code of the frame on top of the stack.                                  *)
(*                                                                         *)
(* A Python str is a sequence of words (the text is the words joined by    *)
(* single blanks); a registry key is a one-word str.  Child processes are  *)
(* the external collaborator: each one exits 0 or non-zero, chosen by the  *)
(* environment.  Failures are Exception subclasses, as the executors of    *)
(* the module raise them (CalledProcessError, KeyError, TypeError,         *)
(* RuntimeError, Exception).                                               *)
(***************************************************************************)
EXTENDS Integers, Sequences, FiniteSets, TLC

VARIABLES
    tasks,      \* conf["tasks"]: registry, task name -> declaration
    conf,       \* the string-valued keys of conf used by f(): key -> text
    argv,       \* sys.argv[1:]
    proc,       \* "init" (cute() not yet dispatched), "running", "exited"
    exit_code,  \* process exit status once proc = "exited"
    stack,      \* call stack, innermost frame last
    ret,        \* result handed to the frame on top of the stack
    trace,      \* units executed so far (enter_task / subprocess / Skip log)
    nrun,       \* number of run() invocations started
    nexc,       \* number of exception objects created
    files,      \* the files Bump reads and writes: file name -> text
    call        \* the function call a bumper is applied to, and its result

vars == <<tasks, conf, argv, proc, exit_code, stack, ret, trace, nrun, nexc,
          files, call>>

----------------------------------------------------------------------------
(* Bounds *)

\* Largest number of positional arguments given after the task name.
MaxArgs == 2

----------------------------------------------------------------------------
(* Python values *)

PyNone == "None"

\* Task declarations (the values a user passes to cute()).
Str(s)            == [t |-> "str", s |-> s]
List(items)       == [t |-> "list", items |-> items]
NoneDecl          == [t |-> "None"]
BoolDecl(b)       == [t |-> "bool", b |-> b]
IntDecl(n)        == [t |-> "int", n |-> n]
ExcInst           == [t |-> "exc_inst"]
ExcClass          == [t |-> "exc_class"]
\* Executor objects.
CmdObj(cmds)      == [t |-> "Cmd", cmds |-> cmds]
TaskObj(name)     == [t |-> "Task", name |-> name]
ChainObj(lists)   == [t |-> "Chain", task_lists |-> lists]
SkipObj(task, sk) == [t |-> "Skip", task |-> task, should_skip |-> sk]
ThrowObj(err)     == [t |-> "Throw", err |-> err]
TryObj(ts)        == [t |-> "Try", tasks |-> ts]

Executors == {"Cmd", "Task", "Chain", "Skip", "Throw", "Try"}

\* Python truth value of a declaration (`not task`).
Truthy(d) ==
    CASE d.t = "str"  -> Len(d.s) > 0
      [] d.t = "list" -> Len(d.items) > 0
      [] d.t = "None" -> FALSE
      [] d.t = "bool" -> d.b
      [] d.t = "int"  -> d.n # 0
      [] OTHER        -> TRUE

\* callable(task): executor instances and exception classes.
Callable(d) == d.t \in Executors \cup {"exc_class"}

\* Exceptions: class and object identity.
NoExc == [cls |-> "none", id |-> 0]
MkExc(cls, id) == [cls |-> cls, id |-> id]
\* The Exception instance a declaration or Throw(err) was configured with.
ConfiguredExc == MkExc("Exception", 0)

\* `except Exception` matches.
IsException(e) ==
    e.cls \in {"Exception", "CalledProcessError", "KeyError", "TypeError",
               "RuntimeError", "ValueError", "AttributeError", "OSError",
               "RecursionError"}

----------------------------------------------------------------------------
(* conf and f() *)

Get(m, k) == IF k \in DOMAIN m THEN m[k] ELSE PyNone

Put(m, k, v) == [x \in DOMAIN m \cup {k} |-> IF x = k THEN v ELSE m[x]]

\* The mapping holding the key -> value pairs of S (a registry, a file system).
Reg(S) == [n \in {p[1] : p \in S} |-> (CHOOSE p \in S : p[1] = n)[2]]

\* No file is read or written, and no bumper is called.
NoFiles == [n \in {} |-> <<>>]
NoCall == [fn |-> "none"]

\* The replacement field a word consists of, "" for a literal word.
FieldOf(w) ==
    CASE w = "{curr_task}" -> "curr_task"
      [] w = "{version}"   -> "version"
      [] w = "{pkg_name}"  -> "pkg_name"
      [] w = "{version_file}" -> "version_file"
      [] OTHER             -> ""

\* text.format(**conf) raises KeyError for a field conf does not hold.
f_fails(text, c) ==
    \E i \in 1..Len(text) : FieldOf(text[i]) # "" /\ FieldOf(text[i]) \notin DOMAIN c

f(text, c) ==
    [i \in 1..Len(text) |->
        IF FieldOf(text[i]) = "" THEN text[i] ELSE Get(c, FieldOf(text[i]))]

\* shlex.split: the words of the text; a quoted word loses its quotes.
Unquote(w) ==
    CASE w = "\"x y\"" -> "x y"
      [] w = "'x'"     -> "x"
      [] OTHER         -> w

shlex_split(text) == [i \in 1..Len(text) |-> Unquote(text[i])]

----------------------------------------------------------------------------
(* Task converter *)

\* matcher of Task: isinstance(task, str) and task in conf.get("tasks", ())
IsTaskName(d, reg) == d.t = "str" /\ Len(d.s) = 1 /\ d.s[1] \in DOMAIN reg

\* Mutant: the Cmd matcher registered before the Task matcher.
transform_cmd_first(item, reg) ==
    CASE item.t = "str"                      -> CmdObj(<<item.s>>)
      [] item.t = "list"                     -> ChainObj(<<item.items>>)
      [] item.t \in {"exc_inst", "exc_class"} -> ThrowObj(item.t)
      [] OTHER                               -> item

\* Mutant: no matcher for exceptions; they reach run_task as they are.
transform_no_throw(item, reg) ==
    CASE IsTaskName(item, reg)               -> TaskObj(item.s[1])
      [] item.t = "str"                      -> CmdObj(<<item.s>>)
      [] item.t = "list"                     -> ChainObj(<<item.items>>)
      [] OTHER                               -> item

\* TaskConverter.transform with the matchers in registration order.
transform(item, reg) ==
    CASE IsTaskName(item, reg)               -> TaskObj(item.s[1])
      [] item.t = "str"                      -> CmdObj(<<item.s>>)
      [] item.t = "list"                     -> ChainObj(<<item.items>>)
      [] item.t \in {"exc_inst", "exc_class"} -> ThrowObj(item.t)
      [] OTHER                               -> item

\* Chain iterates task_lists, then the items of each list.
RECURSIVE Flatten(_)
Flatten(lists) ==
    IF lists = <<>> THEN <<>> ELSE Head(lists) \o Flatten(Tail(lists))

----------------------------------------------------------------------------
(* Frames *)

Frame(k) ==
    [k |-> k, name |-> "", args |-> <<>>, pc |-> "start", i |-> 1,
     d |-> NoneDecl, e |-> NoExc, id |-> 0, slot |-> "", saved |-> PyNone]

RunFrame(name, args, id) ==
    [Frame("run") EXCEPT !.name = name, !.args = args, !.id = id]

DoRunFrame(name, args, id, slot) ==
    [Frame("do_run") EXCEPT !.name = name, !.args = args, !.id = id, !.slot = slot]

RunTaskFrame(task, args) ==
    [Frame("run_task") EXCEPT !.d = task, !.args = args]

CallFrame(obj, args) ==
    [Frame(obj.t) EXCEPT !.d = obj, !.args = args]

Running    == [st |-> "run", val |-> FALSE, e |-> NoExc]
Returned(v) == [st |-> "ok", val |-> v, e |-> NoExc]
Raised(e)  == [st |-> "exc", val |-> FALSE, e |-> e]

Depth   == Len(stack)
Top     == stack[Depth]
Popped  == SubSeq(stack, 1, Depth - 1)
SetTop(fr) == [stack EXCEPT ![Depth] = fr]
TopIs(k) == Depth > 0 /\ Top.k = k

\* Trace events.
Ev(ev, inv, slot, name, args, out, e) ==
    [ev |-> ev, inv |-> inv, slot |-> slot, name |-> name, args |-> args,
     out |-> out, e |-> e]

\* The innermost do_run on the stack: the task (or hook) being executed.
Here ==
    stack[CHOOSE j \in 1..Depth :
            /\ stack[j].k = "do_run"
            /\ \A k \in (j + 1)..Depth : stack[k].k # "do_run"]

\* An event of the unit being executed inside the task Here.
UnitEv(ev, args, out, e) == Ev(ev, Here.id, Here.slot, Here.name, args, out, e)


\* The exception a bare `raise` re-raises: the one handled by the innermost
\* run() that is inside its except clause, or inside its finally clause while
\* an exception is propagating.
Handling(fr) ==
    fr.k = "run" /\ (fr.pc = "err" \/ (fr.pc = "fin" /\ fr.e # NoExc))

\* Mutant: a bare `raise` never finds an exception being handled.
ActiveExc_none(stk) == NoExc

ActiveExc(stk) ==
    LET S == {j \in 1..Len(stk) : Handling(stk[j])}
    IN  IF S = {} THEN NoExc
        ELSE stk[CHOOSE j \in S : \A k \in S : k <= j].e

----------------------------------------------------------------------------
(* Entry point *)

parse_args(args) == IF args # <<>> THEN args ELSE <<"default">>

\* cute(): dispatch run(task_name, *args)  (lines 423-428)
cute ==
    /\ proc = "init"
    /\ LET a == parse_args(argv)
       IN  stack' = <<RunFrame(Head(a), Tail(a), nrun + 1)>>
    /\ nrun' = nrun + 1
    /\ proc' = "running"
    /\ ret' = Running
    /\ UNCHANGED <<files, call, tasks, conf, argv, exit_code, trace, nexc>>

\* Mutant: no exit(1); the process ends with status 0 whatever run() did.
cute_exit_zero ==
    /\ proc = "running" /\ stack = <<>> /\ ret.st # "run"
    /\ proc' = "exited"
    /\ exit_code' = 0
    /\ UNCHANGED <<files, call, tasks, conf, argv, stack, ret, trace, nrun, nexc>>

\* cute(): run() came back  (lines 427-435)
cute_exit ==
    /\ proc = "running" /\ stack = <<>> /\ ret.st # "run"
    /\ proc' = "exited"
    /\ exit_code' = IF ret.st = "exc" /\ IsException(ret.e) THEN 1 ELSE 0
    /\ UNCHANGED <<files, call, tasks, conf, argv, stack, ret, trace, nrun, nexc>>

----------------------------------------------------------------------------
(* run(name, *args)  (lines 447-464) *)

Suffix(pc) == IF pc = "main" THEN "" ELSE "_" \o pc

\* Mutant: the hooks are given the arguments of the task.
HookArgs_all(fr, pc) == fr.args

\* do_run(name + suffix, *args) called from run(); hooks get no arguments.
HookArgs(fr, pc) == IF pc = "main" THEN fr.args ELSE <<>>

CallHook(fr, pc, suffix, args) ==
    Append(SetTop([fr EXCEPT !.pc = pc]),
           DoRunFrame(fr.name \o suffix, args, fr.id, pc))

RetEvent(fr, r) ==
    Ev("ret", fr.id, "", fr.name, fr.args, r.st, r.e)

\* Mutant: no registry check; run() goes straight to do_run(name + "_pre").
run_start_nocheck ==
    /\ TopIs("run") /\ Top.pc = "start" /\ ret.st = "run"
    /\ stack' = CallHook(Top, "pre", "_pre", HookArgs(Top, "pre"))
    /\ UNCHANGED <<ret, nexc, trace>>
    /\ UNCHANGED <<files, call, tasks, conf, argv, proc, exit_code, nrun>>

\* lines 452-455: the registry check, then do_run(name + "_pre")
run_start ==
    /\ TopIs("run") /\ Top.pc = "start" /\ ret.st = "run"
    /\ IF Top.name \notin DOMAIN tasks
         THEN LET e == MkExc("Exception", nexc + 1)
              IN  /\ stack' = Popped
                  /\ ret' = Raised(e)
                  /\ nexc' = nexc + 1
                  /\ trace' = Append(trace, RetEvent(Top, Raised(e)))
         ELSE /\ stack' = CallHook(Top, "pre", "_pre", HookArgs(Top, "pre"))
              /\ UNCHANGED <<ret, nexc, trace>>
    /\ UNCHANGED <<files, call, tasks, conf, argv, proc, exit_code, nrun>>

\* Mutant: do_run(name + "_pre") inside the try statement; its failure is
\* offered to the _err hook.
run_pre_done_intry ==
    /\ TopIs("run") /\ Top.pc = "pre" /\ ret.st # "run"
    /\ IF ret.st = "exc"
         THEN stack' = CallHook([Top EXCEPT !.e = ret.e], "err", "_err",
                                HookArgs(Top, "err"))
         ELSE stack' = CallHook(Top, "main", "", HookArgs(Top, "main"))
    /\ ret' = Running
    /\ trace' = trace
    /\ UNCHANGED <<files, call, tasks, conf, argv, proc, exit_code, nrun, nexc>>

\* line 455 returned or raised; lines 456-457: try: do_run(name, *args)
run_pre_done ==
    /\ TopIs("run") /\ Top.pc = "pre" /\ ret.st # "run"
    /\ IF ret.st = "exc"
         THEN /\ stack' = Popped
              /\ ret' = ret
              /\ trace' = Append(trace, RetEvent(Top, ret))
         ELSE /\ stack' = CallHook(Top, "main", "", HookArgs(Top, "main"))
              /\ ret' = Running
              /\ trace' = trace
    /\ UNCHANGED <<files, call, tasks, conf, argv, proc, exit_code, nrun, nexc>>

\* Mutant: the except clause is entered when the task succeeded.
ClauseAfterMain_swapped(r) ==
    IF r.st = "ok" THEN "err" ELSE "post"

\* The clause of the try statement entered when do_run(name, *args) is over:
\* else, except Exception, or (another BaseException) finally.
ClauseAfterMain(r) ==
    IF r.st = "ok" THEN "post" ELSE IF IsException(r.e) THEN "err" ELSE "fin"

\* lines 458-462: except Exception: do_run(name + "_err");
\* else: do_run(name + "_post")
run_main_done ==
    /\ TopIs("run") /\ Top.pc = "main" /\ ret.st # "run"
    /\ LET pc == ClauseAfterMain(ret)
       IN  stack' = CallHook([Top EXCEPT !.e = ret.e], pc, Suffix(pc), HookArgs(Top, pc))
    /\ ret' = Running
    /\ UNCHANGED <<files, call, tasks, conf, argv, proc, exit_code, trace, nrun, nexc>>

\* Mutant: the except clause always re-raises.
PendingAfterErr_reraise(r, e) ==
    IF r.st = "exc" THEN r.e ELSE e

\* Mutant: the except clause never re-raises.
PendingAfterErr_swallow(r, e) ==
    IF r.st = "exc" THEN r.e ELSE NoExc

\* lines 459-460: the exception that propagates out of the except clause:
\* the one do_run(name + "_err") raised, or e again when it returned False.
PendingAfterErr(r, e) ==
    IF r.st = "exc" THEN r.e ELSE IF r.val THEN NoExc ELSE e

\* lines 459-460: if not do_run(name + "_err"): raise; then the finally clause
run_err_done ==
    /\ TopIs("run") /\ Top.pc = "err" /\ ret.st # "run"
    /\ LET pending == PendingAfterErr(ret, Top.e)
       IN  stack' = CallHook([Top EXCEPT !.e = pending], "fin", "_fin", HookArgs(Top, "fin"))
    /\ ret' = Running
    /\ UNCHANGED <<files, call, tasks, conf, argv, proc, exit_code, trace, nrun, nexc>>

\* Mutant: no finally clause; a failing _post hook leaves run() at once.
run_post_done_nofinally ==
    /\ TopIs("run") /\ Top.pc = "post" /\ ret.st # "run"
    /\ IF ret.st = "exc"
         THEN /\ stack' = Popped
              /\ ret' = ret
              /\ trace' = Append(trace, RetEvent(Top, ret))
         ELSE /\ stack' = CallHook(Top, "fin", "_fin", HookArgs(Top, "fin"))
              /\ ret' = Running
              /\ trace' = trace
    /\ UNCHANGED <<files, call, tasks, conf, argv, proc, exit_code, nrun, nexc>>

\* line 462 returned or raised; then the finally clause
run_post_done ==
    /\ TopIs("run") /\ Top.pc = "post" /\ ret.st # "run"
    /\ LET pending == IF ret.st = "exc" THEN ret.e ELSE NoExc
       IN  stack' = CallHook([Top EXCEPT !.e = pending], "fin", "_fin", HookArgs(Top, "fin"))
    /\ ret' = Running
    /\ UNCHANGED <<files, call, tasks, conf, argv, proc, exit_code, trace, nrun, nexc>>

\* lines 463-464: do_run(name + "_fin") is over; run() returns or propagates
run_fin_done ==
    /\ TopIs("run") /\ Top.pc = "fin" /\ ret.st # "run"
    /\ LET r == IF ret.st = "exc" THEN ret
                ELSE IF Top.e = NoExc THEN Returned(FALSE) ELSE Raised(Top.e)
       IN  /\ ret' = r
           /\ trace' = Append(trace, RetEvent(Top, r))
    /\ stack' = Popped
    /\ UNCHANGED <<files, call, tasks, conf, argv, proc, exit_code, nrun, nexc>>

----------------------------------------------------------------------------
(* do_run(name, *args) with enter_task(name)  (lines 473-490) *)

\* Mutant: only a name that is not registered is passed over; a falsy
\* declaration is entered and handed to run_task.
do_run_registered ==
    /\ TopIs("do_run") /\ Top.pc = "start" /\ ret.st = "run"
    /\ LET task == IF Top.name \in DOMAIN tasks THEN tasks[Top.name] ELSE NoneDecl
       IN  IF Top.name \notin DOMAIN tasks
             THEN /\ stack' = Popped
                  /\ ret' = Returned(FALSE)
                  /\ UNCHANGED <<conf, trace>>
             ELSE /\ stack' = Append(
                        SetTop([Top EXCEPT !.pc = "body",
                                           !.saved = Get(conf, "curr_task")]),
                        RunTaskFrame(task, Top.args))
                  /\ conf' = Put(conf, "curr_task", Top.name)
                  /\ trace' = Append(trace,
                        Ev("task", Top.id, Top.slot, Top.name, Top.args, "", NoExc))
                  /\ ret' = ret
    /\ UNCHANGED <<files, call, tasks, argv, proc, exit_code, nrun, nexc>>

\* lines 483-488 and 475-478: look the task up, enter it, call run_task
do_run ==
    /\ TopIs("do_run") /\ Top.pc = "start" /\ ret.st = "run"
    /\ LET task == IF Top.name \in DOMAIN tasks THEN tasks[Top.name] ELSE NoneDecl
       IN  IF ~Truthy(task)
             THEN /\ stack' = Popped
                  /\ ret' = Returned(FALSE)
                  /\ UNCHANGED <<conf, trace>>
             ELSE /\ stack' = Append(
                        SetTop([Top EXCEPT !.pc = "body",
                                           !.saved = Get(conf, "curr_task")]),
                        RunTaskFrame(task, Top.args))
                  /\ conf' = Put(conf, "curr_task", Top.name)
                  /\ trace' = Append(trace,
                        Ev("task", Top.id, Top.slot, Top.name, Top.args, "", NoExc))
                  /\ ret' = ret
    /\ UNCHANGED <<files, call, tasks, argv, proc, exit_code, nrun, nexc>>

\* lines 479 and 490: the with block is left; curr_task is put back only
\* when the body returned (the generator has no try/finally)
do_run_exit ==
    /\ TopIs("do_run") /\ Top.pc = "body" /\ ret.st # "run"
    /\ IF ret.st = "ok"
         THEN /\ conf' = Put(conf, "curr_task", Top.saved)
              /\ ret' = Returned(TRUE)
         ELSE /\ conf' = conf
              /\ ret' = ret
    /\ trace' = Append(trace,
          Ev("done", Top.id, Top.slot, Top.name, Top.args, ret.st, ret.e))
    /\ stack' = Popped
    /\ UNCHANGED <<files, call, tasks, argv, proc, exit_code, nrun, nexc>>

----------------------------------------------------------------------------
(* run_task(task, *args)  (lines 530-537) *)

\* Mutant: a task that is not callable is passed over like a falsy one.
run_task_lenient ==
    /\ TopIs("run_task") /\ ret.st = "run"
    /\ LET task == transform(Top.d, tasks)
       IN  IF ~Truthy(task) \/ ~Callable(task)
             THEN /\ stack' = Popped
                  /\ ret' = Returned(FALSE)
             ELSE /\ stack' = SetTop(CallFrame(task, Top.args))
                  /\ ret' = ret
    /\ nexc' = nexc
    /\ UNCHANGED <<files, call, tasks, conf, argv, proc, exit_code, trace, nrun>>

run_task ==
    /\ TopIs("run_task") /\ ret.st = "run"
    /\ LET task == transform(Top.d, tasks)
       IN  IF ~Truthy(task)
             THEN /\ stack' = Popped
                  /\ ret' = Returned(FALSE)
                  /\ nexc' = nexc
             ELSE IF ~Callable(task)
             THEN /\ stack' = Popped
                  /\ ret' = Raised(MkExc("Exception", nexc + 1))
                  /\ nexc' = nexc + 1
             ELSE /\ stack' = SetTop(CallFrame(task, Top.args))
                  /\ ret' = ret
                  /\ nexc' = nexc
    /\ UNCHANGED <<files, call, tasks, conf, argv, proc, exit_code, trace, nrun>>

----------------------------------------------------------------------------
(* Executors *)

\* Cmd.__call__  (lines 138-141): one turn of the loop over self.cmds
Cmd_call ==
    /\ TopIs("Cmd") /\ ret.st = "run"
    /\ IF Top.i > Len(Top.d.cmds)
         THEN /\ stack' = Popped
              /\ ret' = Returned(FALSE)
              /\ UNCHANGED <<trace, nexc>>
         ELSE IF f_fails(Top.d.cmds[Top.i], conf)
         THEN /\ stack' = Popped
              /\ ret' = Raised(MkExc("KeyError", nexc + 1))
              /\ nexc' = nexc + 1
              /\ trace' = trace
         ELSE LET args == shlex_split(f(Top.d.cmds[Top.i], conf)) \o Top.args
                  err  == MkExc("CalledProcessError", nexc + 1)
              IN  \E rc \in {0, 1} :
                    /\ trace' = Append(trace,
                          UnitEv("cmd", args, IF rc = 0 THEN "ok" ELSE "exc",
                                 IF rc = 0 THEN NoExc ELSE err))
                    /\ IF rc = 0
                         THEN /\ stack' = SetTop([Top EXCEPT !.i = @ + 1,
                                                             !.args = args])
                              /\ ret' = ret
                              /\ nexc' = nexc
                         ELSE /\ stack' = Popped
                              /\ ret' = Raised(err)
                              /\ nexc' = nexc + 1
    /\ UNCHANGED <<files, call, tasks, conf, argv, proc, exit_code, nrun>>

\* Mutant: a task name runs the unit of that task alone, without its hooks.
Task_call_bare ==
    /\ TopIs("Task") /\ ret.st = "run"
    /\ stack' = SetTop(DoRunFrame(Top.d.name, Top.args, nrun + 1, "main"))
    /\ nrun' = nrun + 1
    /\ UNCHANGED <<files, call, tasks, conf, argv, proc, exit_code, ret, trace, nexc>>

\* The interpreter's recursion limit, counted in nested calls of run().
MaxNest == 3

\* The calls of run() that are not over.
NestedRuns == Cardinality({i \in 1..Depth : stack[i].k = "run"})

\* Mutant: the Task runs the task it was called from.
RunName_curr(task) == Get(conf, "curr_task")

\* line 214: the name handed to run()
RunName(task) == task.name

\* Task.__call__  (lines 213-214): run(self.name, *args); at the recursion
\* limit the call raises RecursionError instead
Task_call ==
    /\ TopIs("Task") /\ ret.st = "run"
    /\ IF NestedRuns >= MaxNest
         THEN /\ stack' = Popped
              /\ ret' = Raised(MkExc("RecursionError", nexc + 1))
              /\ nexc' = nexc + 1
              /\ nrun' = nrun
         ELSE /\ stack' = SetTop(RunFrame(RunName(Top.d), Top.args, nrun + 1))
              /\ nrun' = nrun + 1
              /\ UNCHANGED <<ret, nexc>>
    /\ UNCHANGED <<files, call, tasks, conf, argv, proc, exit_code, trace>>

\* Mutant: the loop goes on after a failing item.
ChainStops_never(r) == FALSE

\* line 257: nothing catches what run_task(item, *args) raises.
ChainStops(r) == r.st = "exc"

\* Mutant: the Chain keeps the arguments to itself.
Chain_call_noargs ==
    /\ TopIs("Chain")
    /\ LET items == Flatten(Top.d.task_lists)
       IN  IF ChainStops(ret)
             THEN /\ stack' = Popped
                  /\ ret' = ret
             ELSE IF Top.i > Len(items)
             THEN /\ stack' = Popped
                  /\ ret' = Returned(FALSE)
             ELSE /\ stack' = Append(SetTop([Top EXCEPT !.i = @ + 1]),
                                     RunTaskFrame(items[Top.i], <<>>))
                  /\ ret' = Running
    /\ UNCHANGED <<files, call, tasks, conf, argv, proc, exit_code, trace, nrun, nexc>>

\* Chain.__call__  (lines 255-257): the next item, or the failure of the last
Chain_call ==
    /\ TopIs("Chain")
    /\ LET items == Flatten(Top.d.task_lists)
       IN  IF ChainStops(ret)
             THEN /\ stack' = Popped
                  /\ ret' = ret
             ELSE IF Top.i > Len(items)
             THEN /\ stack' = Popped
                  /\ ret' = Returned(FALSE)
             ELSE /\ stack' = Append(SetTop([Top EXCEPT !.i = @ + 1]),
                                     RunTaskFrame(items[Top.i], Top.args))
                  /\ ret' = Running
    /\ UNCHANGED <<files, call, tasks, conf, argv, proc, exit_code, trace, nrun, nexc>>

\* Skip.__call__  (lines 300-308); what a callable should_skip returns is
\* the caller's business: either truth value
ShouldSkipValues(sk) ==
    IF sk = "callable" THEN BOOLEAN ELSE {sk = "True"}

\* Mutant: the docstring's reading, "skip if should_skip is not truthy".
Skips_inverted(should_skip) == ~should_skip

\* line 305: if should_skip
Skips(should_skip) == should_skip

Skip_call ==
    /\ TopIs("Skip") /\ ret.st = "run"
    /\ \E r \in ShouldSkipValues(Top.d.should_skip) :
         /\ IF Skips(r)
              THEN /\ stack' = Popped
                   /\ ret' = Returned(FALSE)
                   /\ trace' = Append(trace,
                         UnitEv("skip", Top.args, "", NoExc))
              ELSE /\ stack' = SetTop(RunTaskFrame(Top.d.task, Top.args))
                   /\ ret' = ret
                   /\ trace' = Append(trace,
                         UnitEv("noskip", Top.args, "", NoExc))
    /\ UNCHANGED <<files, call, tasks, conf, argv, proc, exit_code, nrun, nexc>>

\* Throw.__call__  (lines 332-349); it takes no positional arguments
Throw_call ==
    /\ TopIs("Throw") /\ ret.st = "run"
    /\ LET active == ActiveExc(stack)
           fresh(cls) == MkExc(cls, nexc + 1)
           e == IF Top.args # <<>> THEN fresh("TypeError")
                ELSE CASE Top.d.err = "None" ->
                            IF active # NoExc THEN active ELSE fresh("RuntimeError")
                       [] Top.d.err = "exc_inst" -> ConfiguredExc
                       [] OTHER -> fresh("Exception")
       IN  /\ ret' = Raised(e)
           /\ nexc' = IF e.id = nexc + 1 THEN nexc + 1 ELSE nexc
           /\ trace' = Append(trace,
                 UnitEv("throw", Top.args, "exc", e))
    /\ stack' = Popped
    /\ UNCHANGED <<files, call, tasks, conf, argv, proc, exit_code, nrun>>

\* Mutant: no except clause.
TryStops_any(r) == r.st = "exc"

\* lines 376-379: except Exception lets only other BaseExceptions through.
TryStops(r) == r.st = "exc" /\ ~IsException(r.e)

\* Try.__call__  (lines 375-379): the next task; an Exception raised by the
\* last one is logged
Try_call ==
    /\ TopIs("Try")
    /\ IF TryStops(ret)
         THEN /\ stack' = Popped
              /\ ret' = ret
         ELSE IF Top.i > Len(Top.d.tasks)
         THEN /\ stack' = Popped
              /\ ret' = Returned(FALSE)
         ELSE /\ stack' = Append(SetTop([Top EXCEPT !.i = @ + 1]),
                                 RunTaskFrame(Top.d.tasks[Top.i], Top.args))
              /\ ret' = Running
    /\ UNCHANGED <<files, call, tasks, conf, argv, proc, exit_code, trace, nrun, nexc>>

----------------------------------------------------------------------------
(* Version strings and the semver module  (semver>=2.4.1,<3, setup.py) *)

\* A version string or a file text is the sequence of its tokens: a decimal
\* numeral, a word, or a punctuation character; the text is the tokens
\* written one after the other.

\* Largest MAJOR, MINOR and PATCH of the versions in the files.
MaxPart == 2

\* str(n) and int(s) for the numerals the bounds reach.
Numerals ==
    <<"0", "1", "2", "3", "4", "5", "6", "7", "8", "9", "10", "11", "12">>

IsNumeral(t) == \E i \in 1..Len(Numerals) : Numerals[i] = t

int(t) == (CHOOSE i \in 1..Len(Numerals) : Numerals[i] = t) - 1

str(n) == Numerals[n + 1]

Punctuation == {".", "-", "+", "\"", "'", "=", "\n", "#", "__version__ = "}

\* [0-9a-zA-Z-]+ : one identifier of a prerelease or build part
IsIdent(t) == t \notin Punctuation

\* identifiers separated by dots
IsIdents(s) ==
    /\ Len(s) % 2 = 1
    /\ \A i \in 1..Len(s) : IF i % 2 = 1 THEN IsIdent(s[i]) ELSE s[i] = "."

\* The first position of token t in s, 0 when there is none.
FirstIndex(s, t) ==
    IF \E i \in 1..Len(s) : s[i] = t
      THEN CHOOSE i \in 1..Len(s) :
              s[i] = t /\ \A j \in 1..(i - 1) : s[j] # t
      ELSE 0

\* semver.parse(version): MAJOR.MINOR.PATCH[-prerelease][+build]; ok is FALSE
\* where semver raises ValueError.
semver_parse(version) ==
    LET rest  == SubSeq(version, 6, Len(version))
        plus  == FirstIndex(rest, "+")
        pre   == IF rest # <<>> /\ rest[1] = "-"
                   THEN SubSeq(rest, 2, IF plus = 0 THEN Len(rest) ELSE plus - 1)
                   ELSE <<>>
        build == IF plus = 0 THEN <<>> ELSE SubSeq(rest, plus + 1, Len(rest))
        ok    == /\ Len(version) >= 5
                 /\ IsNumeral(version[1]) /\ version[2] = "."
                 /\ IsNumeral(version[3]) /\ version[4] = "."
                 /\ IsNumeral(version[5])
                 /\ \/ rest = <<>>
                    \/ rest[1] = "-" /\ IsIdents(pre)
                    \/ rest[1] = "+"
                 /\ plus # 0 => IsIdents(build)
    IN  IF ok
          THEN [ok |-> TRUE, major |-> int(version[1]), minor |-> int(version[3]),
                patch |-> int(version[5]), prerelease |-> pre, build |-> build]
          ELSE [ok |-> FALSE, major |-> 0, minor |-> 0, patch |-> 0,
                prerelease |-> <<>>, build |-> <<>>]

\* semver.format_version(major, minor, patch, prerelease, build)
format_version(major, minor, patch, prerelease, build) ==
    <<str(major), ".", str(minor), ".", str(patch)>>
        \o (IF prerelease = <<>> THEN <<>> ELSE <<"-">> \o prerelease)
        \o (IF build = <<>> THEN <<>> ELSE <<"+">> \o build)

\* semver._increment_string: the last number of the string plus one
increment_string(s) ==
    LET N == {i \in 1..Len(s) : IsNumeral(s[i])}
    IN  IF N = {} THEN s
        ELSE LET i == CHOOSE i \in N : \A j \in N : j <= i
             IN  [s EXCEPT ![i] = str(int(s[i]) + 1)]

\* The names n for which the module has a function bump_n.
BumpNames == {"major", "minor", "patch", "prerelease", "build"}

\* semver.bump_<name>(version), for a version that parses
semver_bump(name, version) ==
    LET v == semver_parse(version) IN
    CASE name = "major" -> format_version(v.major + 1, 0, 0, <<>>, <<>>)
      [] name = "minor" -> format_version(v.major, v.minor + 1, 0, <<>>, <<>>)
      [] name = "patch" -> format_version(v.major, v.minor, v.patch + 1, <<>>, <<>>)
      [] name = "prerelease" ->
            format_version(v.major, v.minor, v.patch,
                increment_string(IF v.prerelease = <<>> THEN <<"rc", ".", "0">>
                                 ELSE v.prerelease), <<>>)
      [] name = "build" ->
            format_version(v.major, v.minor, v.patch, v.prerelease,
                increment_string(IF v.build = <<>> THEN <<"build", ".", "0">>
                                 ELSE v.build))

\* What a bumper hands back: the new version, or the class of what it raised.
NewVersion(v) == [ok |-> TRUE, v |-> v, cls |-> ""]
Rejected(cls) == [ok |-> FALSE, v |-> <<>>, cls |-> cls]

\* Mutant: the requested version is not validated.
semver_bumper_novalidate(old_version, part) ==
    IF Len(part) = 1 /\ part[1] \in BumpNames
      THEN IF semver_parse(old_version).ok
             THEN NewVersion(semver_bump(part[1], old_version))
             ELSE Rejected("ValueError")
      ELSE NewVersion(part)

\* semver_bumper(old_version, part)  (lines 152-159)
semver_bumper(old_version, part) ==
    IF Len(part) = 1 /\ part[1] \in BumpNames
      THEN IF semver_parse(old_version).ok
             THEN NewVersion(semver_bump(part[1], old_version))
             ELSE Rejected("ValueError")
      ELSE IF semver_parse(part).ok THEN NewVersion(part)
           ELSE Rejected("ValueError")

\* bumper(old_version, *args) with bumper = semver_bumper(old_version,
\* part="patch"): at most one positional argument after the version
apply_bumper(old_version, args) ==
    CASE Len(args) = 0 -> semver_bumper(old_version, <<"patch">>)
      [] Len(args) = 1 -> semver_bumper(old_version, args[1])
      [] OTHER         -> Rejected("TypeError")

----------------------------------------------------------------------------

(* Bump  (lines 44-71 and 161-206) *)

VersionKey == "__version__ = "
Quotes == {"\"", "'"}

\* The positions where "__version__ = ['\"]([^'\"]+)" matches.
VersionMatches(text) ==
    {i \in 1..(Len(text) - 2) :
        text[i] = VersionKey /\ text[i + 1] \in Quotes /\ text[i + 2] \notin Quotes}

\* The last position of the run of tokens outside S that starts at i.
RunEnd(text, i, S) ==
    CHOOSE j \in i..Len(text) :
        /\ \A k \in i..j : text[k] \notin S
        /\ j = Len(text) \/ text[j + 1] \in S

\* The three parts of text around group 1 of the match at position i.
SplitAt(text, i) ==
    LET j == RunEnd(text, i + 2, Quotes)
    IN  [found |-> TRUE, left |-> SubSeq(text, 1, i + 1),
         version |-> SubSeq(text, i + 2, j), right |-> SubSeq(text, j + 1, Len(text))]

\* Mutant: the last match instead of the first.
split_version_last(text) ==
    LET M == VersionMatches(text)
    IN  IF M = {} THEN [found |-> FALSE, left |-> <<>>, version |-> <<>>, right |-> <<>>]
        ELSE SplitAt(text, CHOOSE i \in M : \A k \in M : k <= i)

\* split_version(text)  (lines 55-58): re.search finds the leftmost match;
\* found is FALSE where match is None and match.start raises AttributeError.
split_version(text) ==
    LET M == VersionMatches(text)
    IN  IF M = {} THEN [found |-> FALSE, left |-> <<>>, version |-> <<>>, right |-> <<>>]
        ELSE SplitAt(text, CHOOSE i \in M : \A k \in M : i <= k)

\* find_version_file()  (lines 60-71) for pkg_name = "pkg" with no
\* __pkginfo__.py: version and version_file are set when pkg/__init__.py can
\* be read and holds a version.
find_version_file(fs, c) ==
    LET filename == "pkg/__init__.py"
    IN  IF filename \in DOMAIN fs /\ split_version(fs[filename]).found
          THEN Put(Put(c, "version", split_version(fs[filename]).version),
                   "version_file", filename)
          ELSE c

\* re.search(r"^version\s*=\s*(\S+?)\s*$", cfg_content, re.M)  (line 201):
\* group 1 of the leftmost match, as first and last position
CfgMatches(c) ==
    {i \in 1..(Len(c) - 2) :
        /\ i = 1 \/ c[i - 1] = "\n"
        /\ c[i] = "version" /\ c[i + 1] = "="
        /\ \E k \in (i + 2)..Len(c) :
              c[k] # "\n" /\ \A j \in (i + 2)..(k - 1) : c[j] = "\n"}

CfgGroup(c, i) ==
    LET k == CHOOSE k \in (i + 2)..Len(c) :
                c[k] # "\n" /\ \A j \in (i + 2)..(k - 1) : c[j] = "\n"
    IN  <<k, RunEnd(c, k, {"\n"})>>

\* lines 196-205: the version inside setup.cfg, when there is one
update_cfg(fs, version) ==
    IF "setup.cfg" \notin DOMAIN fs \/ CfgMatches(fs["setup.cfg"]) = {} THEN fs
    ELSE LET c == fs["setup.cfg"]
             i == CHOOSE i \in CfgMatches(c) : \A k \in CfgMatches(c) : i <= k
             g == CfgGroup(c, i)
         IN  [fs EXCEPT !["setup.cfg"] =
                 SubSeq(c, 1, g[1] - 1) \o version \o SubSeq(c, g[2] + 1, Len(c))]

\* A call of Bump(file)(*args) or of semver_bumper(old, *args) to be made.
BumpCall(file, args) ==
    [fn |-> "Bump", file |-> file, old |-> <<>>, args |-> args, done |-> FALSE]
SemverCall(old, args) ==
    [fn |-> "semver_bumper", file |-> <<>>, old |-> old, args |-> args, done |-> FALSE]

\* Bump.__call__  (lines 183-205)
Bump_call ==
    /\ call.fn = "Bump" /\ ~call.done
    /\ call' = [call EXCEPT !.done = TRUE]
    /\ LET exc(cls) == Raised(MkExc(cls, nexc + 1))
           file == IF f_fails(call.file, conf) THEN "" ELSE f(call.file, conf)[1]
       IN  IF f_fails(call.file, conf)
             THEN ret' = exc("KeyError") /\ UNCHANGED <<conf, files>>
           ELSE IF file \notin DOMAIN files
             THEN ret' = exc("OSError") /\ UNCHANGED <<conf, files>>
           ELSE IF ~split_version(files[file]).found
             THEN ret' = exc("AttributeError") /\ UNCHANGED <<conf, files>>
           ELSE LET sv == split_version(files[file])
                    b  == apply_bumper(sv.version, call.args)
                IN  IF ~b.ok
                      THEN /\ conf' = Put(conf, "old_version", sv.version)
                           /\ ret' = exc(b.cls)
                           /\ files' = files
                      ELSE /\ conf' = Put(Put(conf, "old_version", sv.version),
                                          "version", b.v)
                           /\ files' = update_cfg(
                                 [files EXCEPT ![file] = sv.left \o b.v \o sv.right],
                                 b.v)
                           /\ ret' = Returned(FALSE)
    /\ nexc' = IF ret'.st = "exc" THEN nexc + 1 ELSE nexc
    /\ UNCHANGED <<tasks, argv, proc, exit_code, stack, trace, nrun>>

\* semver_bumper(old_version, *args) called and over
semver_bumper_call ==
    /\ call.fn = "semver_bumper" /\ ~call.done
    /\ call' = [call EXCEPT !.done = TRUE]
    /\ LET b == apply_bumper(call.old, call.args)
       IN  ret' = IF b.ok THEN Returned(b.v) ELSE Raised(MkExc(b.cls, nexc + 1))
    /\ nexc' = IF ret'.st = "exc" THEN nexc + 1 ELSE nexc
    /\ UNCHANGED <<tasks, conf, argv, proc, exit_code, stack, trace, nrun, files>>

\* The versions the files hold and the calls are given.
Version(major, minor, patch) == format_version(major, minor, patch, <<>>, <<>>)

OldVersions ==
    {Version(a, b, c) : a \in 0..MaxPart, b \in 0..MaxPart, c \in 0..MaxPart}
        \cup {<<"1", ".", "0", ".", "0", "-", "rc", ".", "1">>, <<"dev">>}

\* The values of part: the bump names, versions, and strings that are neither.
Parts ==
    {<<n>> : n \in BumpNames}
        \cup {<<"0", ".", "9", ".", "6">>,
              <<"2", ".", "0", ".", "0", "-", "rc", ".", "1">>}
        \cup {<<"foo">>, <<"1", ".", "2">>, <<>>, <<"v", "1", ".", "0", ".", "0">>}

BumperArgs == {<<>>, <<(<<"minor">>), (<<"major">>)>>} \cup {<<p>> : p \in Parts}

\* The text of pkg/__init__.py: a version literal, possibly after a line that
\* holds an empty one and before a second assignment; or no version at all.
Texts ==
    {l \o <<VersionKey, q>> \o v \o <<q>> \o r :
        l \in {<<>>, <<"#", "\n">>, <<VersionKey, "\"", "\"", "\n">>},
        q \in Quotes, v \in OldVersions,
        r \in {<<"\n">>,
               <<"\n", VersionKey, "'", "9", ".", "9", ".", "9", "'", "\n">>}}
        \cup {<<"#", "\n">>}

CfgTexts ==
    { <<"name", "=", "pkg", "\n", "version", "=", "0", ".", "0", ".", "0", "\n",
        "version", "=", "1", "\n">>,
      <<"name", "=", "pkg", "\n">> }

FileSystems ==
    {Reg({<<"pkg/__init__.py", t>>}) : t \in Texts}
        \cup {Reg({<<"pkg/__init__.py", t>>, <<"setup.cfg", c>>}) :
                t \in Texts, c \in CfgTexts}

InitBump ==
    /\ \/ /\ call \in {SemverCall(old, args) : old \in OldVersions, args \in BumperArgs}
          /\ files = NoFiles
       \/ /\ call \in {BumpCall(file, args) :
                          file \in {<<"{version_file}">>, <<"pkg/__init__.py">>,
                                    <<"pkg/__pkginfo__.py">>},
                          args \in BumperArgs}
          /\ files \in FileSystems
    /\ conf = find_version_file(files, [k \in {"date", "pkg_name"} |->
                                           IF k = "date" THEN "now" ELSE "pkg"])
    /\ tasks = Reg({})
    /\ argv = <<>>
    /\ proc = "init"
    /\ exit_code = 0
    /\ stack = <<>>
    /\ ret = Running
    /\ trace = <<>>
    /\ nrun = 0
    /\ nexc = 0

NextBump ==
    \/ Bump_call
    \/ semver_bumper_call

SpecBump == InitBump /\ [][NextBump]_vars

----------------------------------------------------------------------------

(* xcute.utils: natsorted  (utils.py lines 5-18) *)

\* A str is here the sequence of its characters.  "sup2" is SUPERSCRIPT TWO
\* and "ar3" is ARABIC-INDIC DIGIT THREE: str.isdigit() is true of both,
\* [0-9] matches neither, and int() accepts only the second.
AsciiDigits == {"0", "1", "2", "3", "4", "5", "6", "7", "8", "9"}
OtherDigits == {"sup2", "ar3"}

\* The code points that order the characters.
Ord(ch) ==
    CASE ch = "-" -> 45 [] ch = "/" -> 47
      [] ch = "0" -> 48 [] ch = "1" -> 49 [] ch = "2" -> 50 [] ch = "3" -> 51
      [] ch = "4" -> 52 [] ch = "5" -> 53 [] ch = "6" -> 54 [] ch = "7" -> 55
      [] ch = "8" -> 56 [] ch = "9" -> 57
      [] ch = "A" -> 65 [] ch = "B" -> 66
      [] ch = "a" -> 97 [] ch = "b" -> 98 [] ch = "c" -> 99
      [] ch = "sup2" -> 178 [] ch = "ar3" -> 1635

\* The length of the longest prefix of s made of digits [0-9] (d = TRUE) or
\* of other characters (d = FALSE).
RECURSIVE PrefixLen(_, _)
PrefixLen(s, d) ==
    IF s = <<>> \/ ((Head(s) \in AsciiDigits) # d) THEN 0
    ELSE 1 + PrefixLen(Tail(s), d)

\* re.split("([0-9]+)", s): text, digits, text, ..., text
RECURSIVE SplitRuns(_, _)
SplitRuns(s, d) ==
    IF s = <<>> THEN (IF d THEN <<>> ELSE << <<>> >>)
    ELSE LET n == PrefixLen(s, d)
         IN  <<SubSeq(s, 1, n)>> \o SplitRuns(SubSeq(s, n + 1, Len(s)), ~d)

\* text.isdigit()
isdigit(text) ==
    text # <<>> /\ \A i \in 1..Len(text) : text[i] \in AsciiDigits \cup OtherDigits

\* int(text) raises ValueError for a character that is no decimal digit.
IntFails(text) == \E i \in 1..Len(text) : text[i] = "sup2"

RECURSIVE IntValue(_)
IntValue(text) ==
    IF text = <<>> THEN 0
    ELSE 10 * IntValue(SubSeq(text, 1, Len(text) - 1))
         + (IF text[Len(text)] = "ar3" THEN 3 ELSE Ord(text[Len(text)]) - 48)

\* text.lower()
lower(text) ==
    [i \in 1..Len(text) |->
        CASE text[i] = "A" -> "a" [] text[i] = "B" -> "b" [] OTHER -> text[i]]

IntItem(n) == [int |-> TRUE, n |-> n, s |-> <<>>]
StrItem(s) == [int |-> FALSE, n |-> 0, s |-> s]

\* _natsorted_key(s)  (lines 14-16); fails is TRUE where int() raises
KeyFails(s) ==
    \E i \in 1..Len(SplitRuns(s, FALSE)) :
        isdigit(SplitRuns(s, FALSE)[i]) /\ IntFails(SplitRuns(s, FALSE)[i])

natsorted_key(s) ==
    LET runs == SplitRuns(s, FALSE)
    IN  [i \in 1..Len(runs) |->
            IF isdigit(runs[i]) THEN IntItem(IntValue(runs[i]))
            ELSE StrItem(lower(runs[i]))]

\* str < str: by code point, a proper prefix first
RECURSIVE StrLt(_, _)
StrLt(x, y) ==
    IF y = <<>> THEN FALSE
    ELSE IF x = <<>> THEN TRUE
    ELSE IF Head(x) # Head(y) THEN Ord(Head(x)) < Ord(Head(y))
    ELSE StrLt(Tail(x), Tail(y))

\* list < list: the first items that differ decide, and int < str raises
\* TypeError ("err"); without such items the shorter list is the smaller.
ListLt(x, y) ==
    LET D == {i \in 1..Len(x) : i <= Len(y) /\ x[i] # y[i]}
    IN  IF D = {} THEN (IF Len(x) < Len(y) THEN "lt" ELSE "ge")
        ELSE LET i == CHOOSE i \in D : \A j \in D : i <= j
             IN  IF x[i].int # y[i].int THEN "err"
                 ELSE IF x[i].int
                   THEN (IF x[i].n < y[i].n THEN "lt" ELSE "ge")
                   ELSE (IF StrLt(x[i].s, y[i].s) THEN "lt" ELSE "ge")

\* sorted(seq, key=...) for a short list (list.sort: count_run, then binary
\* insertion).  a is a sequence of positions of seq and K their keys; the
\* result is <<>> with ok FALSE where a comparison raised.
SortFailed == [ok |-> FALSE, a |-> <<>>]
Sorted(a) == [ok |-> TRUE, a |-> a]

\* count_run: the end of the run that starts at position 1, descending
\* (strictly) or not; 0 where a comparison raised.
RECURSIVE RunEndFrom(_, _, _)
RunEndFrom(K, i, desc) ==
    IF i > Len(K) THEN Len(K)
    ELSE LET c == ListLt(K[i], K[i - 1])
         IN  IF c = "err" THEN 0
             ELSE IF (c = "lt") = desc THEN RunEndFrom(K, i + 1, desc)
             ELSE i - 1

Reversed(a) == [i \in 1..Len(a) |-> a[Len(a) + 1 - i]]

\* binarysort: where the pivot goes among a[l..r-1]; 0 where a comparison
\* raised.
RECURSIVE InsertionPoint(_, _, _, _, _)
InsertionPoint(K, a, pivot, l, r) ==
    IF l >= r THEN l
    ELSE LET p == l + ((r - l) \div 2)
             c == ListLt(K[pivot], K[a[p]])
         IN  IF c = "err" THEN 0
             ELSE IF c = "lt" THEN InsertionPoint(K, a, pivot, l, p)
             ELSE InsertionPoint(K, a, pivot, p + 1, r)

RECURSIVE InsertFrom(_, _, _)
InsertFrom(K, a, start) ==
    IF start > Len(a) THEN Sorted(a)
    ELSE LET at == InsertionPoint(K, a, a[start], 1, start)
         IN  IF at = 0 THEN SortFailed
             ELSE InsertFrom(K,
                     SubSeq(a, 1, at - 1) \o <<a[start]>>
                         \o SubSeq(a, at, start - 1)
                         \o SubSeq(a, start + 1, Len(a)),
                     start + 1)

list_sort(K) ==
    LET n == Len(K)
        a == [i \in 1..n |-> i]
    IN  IF n < 2 THEN Sorted(a)
        ELSE LET c == ListLt(K[2], K[1])
                 run == IF c = "err" THEN 0 ELSE RunEndFrom(K, 3, c = "lt")
             IN  IF run = 0 THEN SortFailed
                 ELSE InsertFrom(K,
                         (IF c = "lt" THEN Reversed(SubSeq(a, 1, run))
                          ELSE SubSeq(a, 1, run)) \o SubSeq(a, run + 1, n),
                         run + 1)

\* natsorted(seq)  (line 18): the sorted list, or the class of what was
\* raised: ValueError by a key, TypeError by a comparison.
natsorted(seq) ==
    IF \E i \in 1..Len(seq) : KeyFails(seq[i])
      THEN [ok |-> FALSE, v |-> <<>>, cls |-> "ValueError"]
    ELSE LET r == list_sort([i \in 1..Len(seq) |-> natsorted_key(seq[i])])
         IN  IF ~r.ok THEN [ok |-> FALSE, v |-> <<>>, cls |-> "TypeError"]
             ELSE [ok |-> TRUE, v |-> [i \in 1..Len(seq) |-> seq[r.a[i]]],
                   cls |-> ""]

----------------------------------------------------------------------------

(* xcute.utils: iter_files  (utils.py lines 20-60) *)

\* A path is the str of it: its characters, "/" between the names.

\* file.parents: the path cut before each "/"
parents(file) ==
    {SubSeq(file, 1, i - 1) : i \in {j \in 1..Len(file) : file[j] = "/"}}

Contains(seq, x) == \E i \in 1..Len(seq) : seq[i] = x

\* _iter_files(files)  (lines 37-48): the loop over the sorted files, c the
\* options of the call; the result is `processed` after the loop
RECURSIVE Walk(_, _, _)
Walk(seq, processed, c) ==
    IF seq = <<>> THEN processed
    ELSE LET file == Head(seq)
             skip ==
                \/ /\ c.no_subdir /\ processed # <<>>
                   /\ processed[Len(processed)] \in parents(file)
                \/ file \in c.ignored
                \/ c.no_dir /\ file \in c.dirs
                \/ Contains(processed, file)
         IN  Walk(Tail(seq),
                  IF skip THEN processed ELSE Append(processed, file), c)

\* lines 55-57: one pattern after the other
RECURSIVE WalkPatterns(_, _, _)
WalkPatterns(globs, processed, c) ==
    IF globs = <<>> THEN processed
    ELSE WalkPatterns(Tail(globs),
                      Walk(natsorted(Head(globs)).v, processed, c), c)

\* iter_files(src, patterns, ...): everything it yields, in order; globs[i]
\* is what src.glob(patterns[i]) produces
iter_files(c) ==
    IF c.no_subdir THEN Walk(natsorted(Flatten(c.globs)).v, <<>>, c)
    ELSE WalkPatterns(c.globs, <<>>, c)

NatsortedCall(seq) ==
    [fn |-> "natsorted", seq |-> seq, done |-> FALSE]

IterFilesCall(globs, ignored, dirs, no_subdir, no_dir) ==
    [fn |-> "iter_files", globs |-> globs, ignored |-> ignored, dirs |-> dirs,
     no_subdir |-> no_subdir, no_dir |-> no_dir, done |-> FALSE]

\* natsorted(seq) called and over
natsorted_call ==
    /\ call.fn = "natsorted" /\ ~call.done
    /\ call' = [call EXCEPT !.done = TRUE]
    /\ LET r == natsorted(call.seq)
       IN  ret' = IF r.ok THEN Returned(r.v) ELSE Raised(MkExc(r.cls, nexc + 1))
    /\ nexc' = IF ret'.st = "exc" THEN nexc + 1 ELSE nexc
    /\ UNCHANGED <<tasks, conf, argv, proc, exit_code, stack, trace, nrun, files>>

\* list(iter_files(...)): the generator run to its end
iter_files_call ==
    /\ call.fn = "iter_files" /\ ~call.done
    /\ call' = [call EXCEPT !.done = TRUE]
    /\ ret' = Returned(iter_files(call))
    /\ UNCHANGED <<tasks, conf, argv, proc, exit_code, stack, trace, nrun, nexc,
                   files>>

\* Longest list given to natsorted, and longest result of one glob.
MaxLen == 2
MaxGlob == 3

\* The sequences of at most n elements of S, and those without repetition.
RECURSIVE SeqsUpTo(_, _)
SeqsUpTo(S, n) ==
    IF n = 0 THEN {<<>>}
    ELSE SeqsUpTo(S, n - 1)
           \cup {Append(s, x) : s \in {t \in SeqsUpTo(S, n - 1) : Len(t) = n - 1},
                                x \in S}

Distinct(s) == \A i, j \in 1..Len(s) : s[i] = s[j] => i = j

\* The strings natsorted is given.
SortNames ==
    { <<"1">>, <<"1", "0">>, <<"2">>, <<"0", "1">>, <<>>,
      <<"a">>, <<"A">>, <<"b">>, <<"a", "2">>, <<"a", "1", "0">>, <<"A", "1">>,
      <<"a", "0", "1">>, <<"sup2">>, <<"ar3">>, <<"a", "1", "ar3">> }

\* The paths the globs match: a, a-b, a/b, a/b/c, A, b.
PathPool ==
    { <<"a">>, <<"a", "-", "b">>, <<"a", "/", "b">>,
      <<"a", "/", "b", "/", "c">>, <<"A">>, <<"b">> }

\* file.is_dir(): the paths with something below them
Dirs == {p \in PathPool : \E q \in PathPool : p \in parents(q)}

InitUtils ==
    /\ call \in
          {NatsortedCall(seq) : seq \in SeqsUpTo(SortNames, MaxLen)}
          \cup {IterFilesCall(<<g, h>>, ignored, Dirs, no_subdir, no_dir) :
                  g \in {s \in SeqsUpTo(PathPool, MaxGlob) : Distinct(s)},
                  h \in {<<>>, <<(<<"a">>)>>, <<(<<"a", "/", "b">>)>>},
                  ignored \in {{}, {<<"a">>}},
                  no_subdir \in BOOLEAN, no_dir \in BOOLEAN}
    /\ files = NoFiles
    /\ conf = [k \in {"date"} |-> "now"]
    /\ tasks = Reg({})
    /\ argv = <<>>
    /\ proc = "init"
    /\ exit_code = 0
    /\ stack = <<>>
    /\ ret = Running
    /\ trace = <<>>
    /\ nrun = 0
    /\ nexc = 0

NextUtils ==
    \/ natsorted_call
    \/ iter_files_call

SpecUtils == InitUtils /\ [][NextUtils]_vars

----------------------------------------------------------------------------

(* Registries and command lines the model runs *)

Absent == [t |-> "absent"]

A == Str(<<"a">>)
B == Str(<<"b">>)
C == Str(<<"c">>)

\* Declarations of the task "T".
MainDecls ==
    { A,
      Str(<<"U">>),
      List(<<A, B, C>>),
      List(<<Str(<<"U">>), B>>),
      TryObj(<<A, ExcClass, B>>),
      SkipObj(A, "True"),
      SkipObj(ExcClass, "True"),
      SkipObj(A, "None"),
      SkipObj(B, "callable"),
      CmdObj(<<<<"a", "'x'">>, <<"b", "{curr_task}">>>>),
      ThrowObj("str"),
      BoolDecl(FALSE) }

PreDecls  == {Absent, Str(<<"p">>), Str(<<>>)}
ErrDecls  == {Absent, Str(<<"e">>), List(<<Str(<<"e">>), ThrowObj("None")>>),
              BoolDecl(FALSE)}
PostDecls == {Absent, Str(<<"q">>)}
FinDecls  == {Absent, Str(<<"z">>)}
\* The task "U" and its hook "U_fin".
UDecls    == {<<Absent, Absent>>, <<Str(<<"u">>), Absent>>,
              <<Str(<<"u">>), Str(<<"w">>)>>}

Registry(main, pre, err, post, fin, u) ==
    LET all == [n \in {"T", "T_pre", "T_err", "T_post", "T_fin", "U", "U_fin"} |->
                  CASE n = "T"      -> main
                    [] n = "T_pre"  -> pre
                    [] n = "T_err"  -> err
                    [] n = "T_post" -> post
                    [] n = "T_fin"  -> fin
                    [] n = "U"      -> u[1]
                    [] n = "U_fin"  -> u[2]]
    IN  [n \in {m \in DOMAIN all : all[m] # Absent} |-> all[n]]

Registries ==
    { Registry(main, pre, err, post, fin, u) :
        main \in MainDecls, pre \in PreDecls, err \in ErrDecls,
        post \in PostDecls, fin \in FinDecls, u \in UDecls }

ArgWords == <<"x", "y", "z", "w">>

Argvs == {<<>>} \cup {<<"T">> \o SubSeq(ArgWords, 1, n) : n \in 0..MaxArgs}

----------------------------------------------------------------------------

Init ==
    /\ tasks \in Registries
    /\ conf = [k \in {"date"} |-> "now"]
    /\ argv \in Argvs
    /\ proc = "init"
    /\ exit_code = 0
    /\ stack = <<>>
    /\ ret = Running
    /\ trace = <<>>
    /\ nrun = 0
    /\ nexc = 0
    /\ files = NoFiles
    /\ call = NoCall

Next ==
    \/ cute
    \/ cute_exit
    \/ run_start
    \/ run_pre_done
    \/ run_main_done
    \/ run_err_done
    \/ run_post_done
    \/ run_fin_done
    \/ do_run
    \/ do_run_exit
    \/ run_task
    \/ Cmd_call
    \/ Task_call
    \/ Chain_call
    \/ Skip_call
    \/ Throw_call
    \/ Try_call

Spec == Init /\ [][Next]_vars

----------------------------------------------------------------------------
(* A second set of registries: hooks of an unregistered name, a registered *)
(* "default", hooks that name another task, and declarations that are not  *)
(* commands.                                                                *)

\* Hooks registered for "V", which is not; "default" is.
OrphanHooks ==
    { Reg({<<"default", A>>, <<"V_pre", Str(<<"p">>)>>, <<"V_err", Str(<<"e">>)>>,
           <<"V_post", Str(<<"q">>)>>, <<"V_fin", Str(<<"z">>)>>}) }

\* The task U with its hooks; U_err is registered or not.
UWithHooks ==
    { {<<"U", Str(<<"u">>)>>, <<"U_pre", Str(<<"p">>)>>,
       <<"U_post", Str(<<"q">>)>>, <<"U_fin", Str(<<"z">>)>>} \cup err :
        err \in {{}, {<<"U_err", Str(<<"e">>)>>}} }

\* One hook of T is the name of U (as bump_pre = 'test' in cute.py).
HookNamesTask ==
    { Reg({<<"T", A>>, <<"T" \o Suffix(h), Str(<<"U">>)>>} \cup u) :
        h \in {"pre", "err", "post", "fin"}, u \in UWithHooks }

\* T runs U as a child and goes on.
ChildNamesTask ==
    { Reg({<<"T", d>>} \cup u) :
        d \in {List(<<Str(<<"U">>), B>>), TryObj(<<Str(<<"U">>), B>>)},
        u \in UWithHooks }

\* Declarations that are neither a command, a task name, a list nor an
\* executor.
OtherDecls ==
    { ExcInst, ExcClass, NoneDecl, IntDecl(5), IntDecl(0), BoolDecl(FALSE),
      BoolDecl(TRUE) }

\* T is such a declaration, or runs one as a child and goes on with `a`.
RunsOtherDecl ==
    { Reg({<<"T", d>>}) :
        d \in OtherDecls
              \cup {List(<<x, A>>) : x \in OtherDecls}
              \cup {TryObj(<<x, A>>) : x \in OtherDecls}
              \cup {SkipObj(x, "callable") : x \in OtherDecls} }

\* Declarations that are falsy: False, None, "" and [].
FalsyDecls == {BoolDecl(FALSE), NoneDecl, Str(<<>>), List(<<>>)}

\* T or T_err is registered with a falsy declaration.
FalsyRegistries ==
    { Registry(main, pre, err, post, fin, <<Absent, Absent>>) :
        main \in FalsyDecls \cup {A}, pre \in {Absent, Str(<<"p">>)},
        err \in FalsyDecls \cup {Str(<<"e">>)}, post \in {Absent, Str(<<"q">>)},
        fin \in {Absent, Str(<<"z">>)} }

CaseRegistries ==
    OrphanHooks \cup HookNamesTask \cup ChildNamesTask \cup RunsOtherDecl
        \cup FalsyRegistries

CaseArgvs ==
    {<<>>, <<"default", "x">>}
        \cup {<<n>> \o SubSeq(ArgWords, 1, k) : n \in {"T", "V"}, k \in 0..1}

InitCases ==
    /\ tasks \in CaseRegistries
    /\ argv \in CaseArgvs
    /\ conf = [k \in {"date"} |-> "now"]
    /\ proc = "init"
    /\ exit_code = 0
    /\ stack = <<>>
    /\ ret = Running
    /\ trace = <<>>
    /\ nrun = 0
    /\ nexc = 0
    /\ files = NoFiles
    /\ call = NoCall

SpecCases == InitCases /\ [][Next]_vars

----------------------------------------------------------------------------

(* A third set of registries: tasks that name each other, in a chain or in *)
(* a circle.                                                                *)

\* T runs U and U runs W: as a task, inside a list, from a hook.
DeepRegistries ==
    { Reg({<<"T", t>>, <<"U", u>>, <<"W", Str(<<"w">>)>>} \cup h) :
        t \in {Str(<<"U">>), List(<<Str(<<"U">>), Str(<<"W">>)>>)},
        u \in {Str(<<"W">>), List(<<Str(<<"W">>), B>>),
               SkipObj(Str(<<"W">>), "callable")},
        h \in {{}, {<<"U_fin", Str(<<"W">>)>>}, {<<"W_err", Str(<<"e">>)>>}} }
      \cup { Reg({<<"T", A>>, <<"T_pre", Str(<<"U">>)>>, <<"U", B>>,
                  <<"U_post", Str(<<"W">>)>>, <<"W", Str(<<"w">>)>>}) }

\* A task that names itself, directly, from a hook, or through another task.
CyclicRegistries ==
    { Reg({<<"T", Str(<<"T">>)>>}),
      Reg({<<"T", A>>, <<"T_pre", Str(<<"T">>)>>}),
      Reg({<<"T", A>>, <<"T_err", Str(<<"T">>)>>}),
      Reg({<<"T", A>>, <<"T_fin", Str(<<"T">>)>>}),
      Reg({<<"T", List(<<A, Str(<<"U">>)>>)>>, <<"U", List(<<B, Str(<<"T">>)>>)>>}),
      Reg({<<"T", Str(<<"U">>)>>, <<"U", C>>, <<"U_post", Str(<<"T">>)>>}),
      Reg({<<"T", SkipObj(Str(<<"T">>), "callable")>>, <<"T_fin", Str(<<"z">>)>>}) }

InitTerm ==
    /\ tasks \in CaseRegistries \cup DeepRegistries \cup CyclicRegistries
    /\ argv \in CaseArgvs
    /\ conf = [k \in {"date"} |-> "now"]
    /\ proc = "init"
    /\ exit_code = 0
    /\ stack = <<>>
    /\ ret = Running
    /\ trace = <<>>
    /\ nrun = 0
    /\ nexc = 0
    /\ files = NoFiles
    /\ call = NoCall

\* The interpreter goes on with the program as long as there is a next step.
SpecTerm == InitTerm /\ [][Next]_vars /\ WF_vars(Next)

----------------------------------------------------------------------------

(* Reading the trace *)

\* do_run finds a task to run under this name (line 483-485).
Defined(n) == n \in DOMAIN tasks /\ Truthy(tasks[n])

Rets == {j \in 1..Len(trace) : trace[j].ev = "ret"}

\* The lifecycle slots run() invocation k entered, in order.
TaskEvents(k) == SelectSeq(trace, LAMBDA x : x.ev = "task" /\ x.inv = k)
Slots(k) == [i \in 1..Len(TaskEvents(k)) |-> TaskEvents(k)[i].slot]

\* How the do_run call of a slot of invocation k ended.
Dones(k, slot) ==
    {i \in 1..Len(trace) :
        trace[i].ev = "done" /\ trace[i].inv = k /\ trace[i].slot = slot}
Failed(k, slot) == \E i \in Dones(k, slot) : trace[i].out = "exc"
Succeeded(k, slot) == \E i \in Dones(k, slot) : trace[i].out = "ok"
FailureOf(k, slot) == trace[CHOOSE i \in Dones(k, slot) : TRUE].e

LifecycleSlots == {"pre", "main", "err", "post", "fin"}
NoneFailed(k) == \A slot \in LifecycleSlots : ~Failed(k, slot)

IfDefined(n, slot) == IF Defined(n \o Suffix(slot)) THEN <<slot>> ELSE <<>>

\* Every unit invocation k entered carries the name of its slot.
NamesMatch(k, n) ==
    \A i \in 1..Len(TaskEvents(k)) :
        TaskEvents(k)[i].name = n \o Suffix(TaskEvents(k)[i].slot)

----------------------------------------------------------------------------
(* Claims *)

\* C1: when the main unit and every hook of a registered task T succeed, an
\* invocation run(T, args) has executed T_pre, T, T_post, T_fin, those that
\* do_run finds, each exactly once and in this order, and not T_err; it
\* returns normally.
C1_LifecycleOrder ==
    \A j \in Rets :
        LET r == trace[j] IN
        (r.name \in DOMAIN tasks /\ NoneFailed(r.inv)) =>
            /\ Slots(r.inv) = IfDefined(r.name, "pre") \o IfDefined(r.name, "main")
                              \o IfDefined(r.name, "post") \o IfDefined(r.name, "fin")
            /\ NamesMatch(r.inv, r.name)
            /\ r.out = "ok"

\* C1 witness: an invocation of T with all four units registered ended with
\* none of them failing.
C1_Witness ==
    \E j \in Rets :
        /\ trace[j].name = "T" /\ NoneFailed(trace[j].inv)
        /\ \A s \in {"", "_pre", "_post", "_fin", "_err"} : Defined("T" \o s)
        /\ Slots(trace[j].inv) = <<"pre", "main", "post", "fin">>

\* C2 as claimed: whenever run(T) returns or propagates for a registered T
\* with T_fin registered, T_fin has been executed, whatever T_pre, T, T_post
\* and T_err did.
C2_FinWhateverOutcome ==
    \A j \in Rets :
        LET r == trace[j] IN
        (r.name \in DOMAIN tasks /\ Defined(r.name \o "_fin")) =>
            \E i \in 1..Len(Slots(r.inv)) : Slots(r.inv)[i] = "fin"

\* C2 amended: whenever run(T) returns or propagates for a registered T with
\* T_fin registered and T_pre did not fail, T_fin has been executed, as the
\* last unit of the invocation, whatever T, T_post and T_err did.
C2_FinUnlessPreFailed ==
    \A j \in Rets :
        LET r == trace[j] IN
        (r.name \in DOMAIN tasks /\ Defined(r.name \o "_fin") /\ ~Failed(r.inv, "pre")) =>
            /\ Slots(r.inv) # <<>>
            /\ Slots(r.inv)[Len(Slots(r.inv))] = "fin"
            /\ \A i \in 1..(Len(Slots(r.inv)) - 1) : Slots(r.inv)[i] # "fin"
            /\ Dones(r.inv, "fin") # {}

\* C2 witness: T_fin was executed in an invocation whose main unit failed
\* and whose T_err failed too.
C2_Witness ==
    \E j \in Rets :
        /\ Failed(trace[j].inv, "main") /\ Failed(trace[j].inv, "err")
        /\ Dones(trace[j].inv, "fin") # {}

\* C3 as claimed: if the main unit fails and T_err is registered (do_run
\* finds it), T_err is executed, then T_fin (if registered), and run(T)
\* returns normally.
C3_ErrAlwaysHandles ==
    \A j \in Rets :
        LET r == trace[j] IN
        (Failed(r.inv, "main") /\ Defined(r.name \o "_err")) =>
            /\ Slots(r.inv) = IfDefined(r.name, "pre") \o <<"main", "err">>
                              \o IfDefined(r.name, "fin")
            /\ r.out = "ok"

\* C3 amended: if the main unit fails, do_run finds T_err, and T_err and
\* T_fin (if registered) do not fail themselves, then T_err is executed, then
\* T_fin, and run(T) returns normally: the original failure is not propagated.
C3_ErrHandlesWhenHooksSucceed ==
    \A j \in Rets :
        LET r == trace[j] IN
        (/\ Failed(r.inv, "main") /\ Defined(r.name \o "_err")
         /\ ~Failed(r.inv, "err") /\ ~Failed(r.inv, "fin")) =>
            /\ Slots(r.inv) = IfDefined(r.name, "pre") \o <<"main", "err">>
                              \o IfDefined(r.name, "fin")
            /\ r.out = "ok"

\* C3 witness: the main unit failed, T_err and T_fin ran and succeeded.
C3_Witness ==
    \E j \in Rets :
        /\ Failed(trace[j].inv, "main")
        /\ Succeeded(trace[j].inv, "err") /\ Succeeded(trace[j].inv, "fin")
        /\ trace[j].out = "ok"

\* C4 as claimed: if the main unit fails and no T_err is registered, T_post
\* is not executed, T_fin (if registered) is, and run(T) propagates the
\* original failure of T.
C4_PropagatesOriginal ==
    \A j \in Rets :
        LET r == trace[j] IN
        (Failed(r.inv, "main") /\ (r.name \o "_err") \notin DOMAIN tasks) =>
            /\ Slots(r.inv) = IfDefined(r.name, "pre") \o <<"main">>
                              \o IfDefined(r.name, "fin")
            /\ r.out = "exc"
            /\ r.e = FailureOf(r.inv, "main")

\* C4 amended: if the main unit fails and no T_err is registered, T_post is
\* not executed, T_fin (if registered) is executed, and run(T) propagates a
\* failure: the original failure of T when T_fin did not fail, the failure
\* of T_fin when it did.
C4_PropagatesOriginalUnlessFinFails ==
    \A j \in Rets :
        LET r == trace[j] IN
        (Failed(r.inv, "main") /\ (r.name \o "_err") \notin DOMAIN tasks) =>
            /\ Slots(r.inv) = IfDefined(r.name, "pre") \o <<"main">>
                              \o IfDefined(r.name, "fin")
            /\ r.out = "exc"
            /\ r.e = IF Failed(r.inv, "fin") THEN FailureOf(r.inv, "fin")
                     ELSE FailureOf(r.inv, "main")

\* C4 witness: the main unit failed with no T_err, T_fin ran and succeeded,
\* and the original failure came out of run(T).
C4_Witness ==
    \E j \in Rets :
        /\ Failed(trace[j].inv, "main") /\ Succeeded(trace[j].inv, "fin")
        /\ (trace[j].name \o "_err") \notin DOMAIN tasks
        /\ trace[j].e = FailureOf(trace[j].inv, "main")

\* What happened inside the unit of a slot of invocation k: child processes,
\* Throw calls and Skip decisions, in order.
UnitEvents(k, slot) ==
    SelectSeq(trace, LAMBDA x : /\ x.ev \in {"cmd", "throw", "skip", "noskip"}
                                /\ x.inv = k /\ x.slot = slot)

\* The positional arguments of the first invocation, run(task_name, *args).
Args1 == Tail(parse_args(argv))

\* The process was started as `cute T ...` with T declared as d.
TIs(d) ==
    argv # <<>> /\ argv[1] = "T" /\ "T" \in DOMAIN tasks /\ tasks["T"] = d

\* C5: a Chain of [A, B, C] runs its children in declared order and stops at
\* the first failing child: no child runs after a failure, the failure that
\* leaves the Chain is that child's, and without a failure all three ran.
C5_ChainStopsAtFirstFailure ==
    TIs(List(<<A, B, C>>)) =>
        LET u == UnitEvents(1, "main") IN
        /\ Len(u) <= 3
        /\ \A i \in 1..Len(u) :
              u[i].ev = "cmd" /\ u[i].args = <<(<<"a", "b", "c">>)[i]>> \o Args1
        /\ \A i \in 1..(Len(u) - 1) : u[i].out = "ok"
        /\ \A j \in Dones(1, "main") :
              IF trace[j].out = "exc"
                THEN /\ Len(u) >= 1 /\ u[Len(u)].out = "exc"
                     /\ trace[j].e = u[Len(u)].e
                ELSE Len(u) = 3 /\ u[3].out = "ok"

\* C5 witness: A ran, B ran and failed, the Chain is over and C never ran.
C5_Witness ==
    /\ TIs(List(<<A, B, C>>))
    /\ Failed(1, "main")
    /\ Len(UnitEvents(1, "main")) = 2
    /\ UnitEvents(1, "main")[2].out = "exc"

\* C6: Try(A, Exception, B) runs every child once, in declared order,
\* whether or not earlier children failed, and completes without failure;
\* run(T) never executes T_err.
C6_TryRunsEveryChild ==
    TIs(TryObj(<<A, ExcClass, B>>)) =>
        LET u == UnitEvents(1, "main") IN
        /\ Len(u) <= 3
        /\ \A i \in 1..Len(u) : u[i].ev = (<<"cmd", "throw", "cmd">>)[i]
        /\ Len(u) >= 1 => u[1].args = <<"a">> \o Args1
        /\ Len(u) >= 3 => u[3].args = <<"b">> \o Args1
        /\ \A j \in Dones(1, "main") : trace[j].out = "ok" /\ Len(u) = 3
        /\ \A i \in 1..Len(Slots(1)) : Slots(1)[i] # "err"

\* C6 witness: A failed, B ran all the same, and the Try returned, with T_err
\* registered.
C6_Witness ==
    /\ TIs(TryObj(<<A, ExcClass, B>>))
    /\ Defined("T_err")
    /\ Succeeded(1, "main")
    /\ UnitEvents(1, "main")[1].out = "exc"
    /\ Len(UnitEvents(1, "main")) = 3

C8_RegistryNamePrecedence ==
    TIs(Str(<<"U">>)) =>
        IF "U" \in DOMAIN tasks
          THEN /\ \A i \in 1..Len(trace) :
                     trace[i].ev = "cmd" => trace[i].args[1] # "U"
               /\ \A j \in Dones(1, "main") :
                     /\ \E r \in Rets : /\ trace[r].inv = 2 /\ trace[r].name = "U"
                                        /\ trace[r].args = Args1
                     /\ Slots(2) = <<"main">> \o IfDefined("U", "fin")
                     /\ NamesMatch(2, "U")
                     /\ UnitEvents(1, "main") = <<>>
          ELSE /\ nrun <= 1
               /\ \A j \in Dones(1, "main") :
                     LET u == UnitEvents(1, "main") IN
                     /\ Len(u) = 1 /\ u[1].ev = "cmd"
                     /\ u[1].args = <<"U">> \o Args1

\* C8 witness: T = "U" with U and U_fin registered: run("U") was re-entered
\* and is over.
C8_Witness ==
    /\ TIs(Str(<<"U">>))
    /\ Defined("U") /\ Defined("U_fin")
    /\ Succeeded(1, "main")
    /\ Slots(2) = <<"main", "fin">>

\* C9 as claimed: the k-th child process of a Cmd is run with the tokens of
\* its k-th template followed by the args the Cmd was called with.
C9_EachCommandOwnTokens ==
    (TopIs("Cmd") /\ Top.i > 1) =>
        trace[Len(trace)].args =
            shlex_split(f(Top.d.cmds[Top.i - 1], conf)) \o stack[Depth - 1].args

\* C10: do_run is given the arguments of run(T, *args) for T itself and no
\* arguments for T_pre, T_err, T_post, T_fin; a hook's command line is its
\* own tokens, that of the command T its tokens followed by args.
C10_OnlyMainGetsArgs ==
    /\ \A i \in 1..Len(trace) :
          trace[i].ev = "task" =>
             IF trace[i].slot = "main"
               THEN /\ trace[i].inv = 1 => trace[i].args = Args1
                    /\ \A j \in 1..Depth :
                          (stack[j].k = "run" /\ stack[j].id = trace[i].inv)
                              => trace[i].args = stack[j].args
               ELSE trace[i].args = <<>>
    /\ \A i \in 1..Len(trace) :
          (trace[i].ev = "cmd" /\ trace[i].inv = 1) =>
             IF trace[i].slot = "main"
               THEN TIs(A) => trace[i].args = <<"a">> \o Args1
               ELSE trace[i].args \in {<<"p">>, <<"e">>, <<"q">>, <<"z">>}

\* C10 witness: `cute T x y` with every hook registered: T_err and T_fin were
\* entered.
C10_Witness ==
    /\ argv = <<"T", "x", "y">>
    /\ Slots(1) = <<"pre", "main", "err", "fin">>
    /\ Dones(1, "fin") # {}

\* C11: a Chain called with args hands the same, complete args to every
\* child: each child command is run with its own tokens followed by args, and
\* a child that names the registered task U re-enters run("U", *args), whose
\* main unit is given args.
C11_ChainPassesSameArgs ==
    /\ TIs(List(<<A, B, C>>)) =>
          \A i \in 1..Len(UnitEvents(1, "main")) :
              UnitEvents(1, "main")[i].args = <<(<<"a", "b", "c">>)[i]>> \o Args1
    /\ TIs(List(<<Str(<<"U">>), B>>)) =>
          /\ \A i \in 1..Len(trace) :
                (trace[i].ev = "cmd" /\ trace[i].inv = 1 /\ trace[i].slot = "main")
                    => trace[i].args \in {<<"U">> \o Args1, <<"b">> \o Args1}
          /\ "U" \in DOMAIN tasks =>
                /\ nrun >= 2 => \E j \in 1..Depth \cup Rets :
                      \/ /\ j \in Rets /\ trace[j].inv = 2
                         /\ trace[j].name = "U" /\ trace[j].args = Args1
                      \/ /\ j \in 1..Depth /\ stack[j].k = "run" /\ stack[j].id = 2
                         /\ stack[j].name = "U" /\ stack[j].args = Args1
                /\ \A i \in 1..Len(trace) :
                      /\ (trace[i].ev = "task" /\ trace[i].inv = 2
                            /\ trace[i].slot = "main")
                           => trace[i].name = "U" /\ trace[i].args = Args1
                      /\ (trace[i].ev = "cmd" /\ trace[i].inv = 2
                            /\ trace[i].slot = "main")
                           => trace[i].args = <<"u">> \o Args1
                /\ \A j \in Dones(1, "main") :
                      trace[j].out = "ok" =>
                          /\ Len(UnitEvents(2, "main")) = 1
                          /\ Len(UnitEvents(1, "main")) = 1
                          /\ UnitEvents(1, "main")[1].args = <<"b">> \o Args1

\* C11 witness: `cute T x y` with T = ["U", "b"] and U registered: the command
\* of U and the command b both ran with x y.
C11_Witness ==
    /\ argv = <<"T", "x", "y">>
    /\ TIs(List(<<Str(<<"U">>), B>>)) /\ Defined("U")
    /\ Succeeded(1, "main")
    /\ UnitEvents(2, "main")[1].args = <<"u", "x", "y">>
    /\ UnitEvents(1, "main")[1].args = <<"b", "x", "y">>

\* C12: run(name) for a name that is not a key of the registry fails with the
\* unknown-task error before any unit is executed: the invocation enters no
\* unit and starts no process, and name_pre, name_err, name_post, name_fin
\* are not executed even when they are registered.
C12_UnknownTaskRunsNothing ==
    /\ \A k \in 1..Depth :
          (stack[k].k = "run" /\ stack[k].name \notin DOMAIN tasks) =>
              /\ k = Depth /\ stack[k].pc = "start"
              /\ \A i \in 1..Len(trace) : trace[i].inv # stack[k].id
    /\ \A j \in Rets :
          LET r == trace[j] IN
          r.name \notin DOMAIN tasks =>
              /\ r.out = "exc" /\ r.e.cls = "Exception"
              /\ \A i \in 1..Len(trace) : trace[i].inv = r.inv => i = j
              /\ r.inv = 1 => j = 1 /\ Get(conf, "curr_task") = PyNone

\* C12 witness: `cute V` with V_pre, V_err, V_post and V_fin registered and V
\* not: run("V") is over.
C12_Witness ==
    /\ argv # <<>> /\ argv[1] = "V"
    /\ "V" \notin DOMAIN tasks
    /\ \A h \in {"V_pre", "V_err", "V_post", "V_fin"} : Defined(h)
    /\ \E j \in Rets : trace[j].name = "V"

\* C13: cute() runs the task named by the first command-line argument,
\* "default" when there is none, with the remaining arguments as args; the
\* process exits with status 1 when run() propagated a failure and with
\* status 0 when run() returned.
C13_EntryPointDispatch ==
    LET name == IF argv = <<>> THEN "default" ELSE argv[1]
        args == IF argv = <<>> THEN <<>> ELSE SubSeq(argv, 2, Len(argv))
    IN  /\ \A k \in 1..Depth :
              (stack[k].k = "run" /\ stack[k].id = 1) =>
                  k = 1 /\ stack[k].name = name /\ stack[k].args = args
        /\ \A j \in Rets :
              trace[j].inv = 1 =>
                  /\ trace[j].name = name /\ trace[j].args = args
                  /\ j = Len(trace)
        /\ \A i \in 1..Len(trace) :
              (trace[i].ev = "task" /\ trace[i].inv = 1 /\ trace[i].slot = "main")
                  => trace[i].name = name /\ trace[i].args = args
        /\ proc = "exited" =>
              /\ trace # <<>> /\ trace[Len(trace)].ev = "ret"
              /\ trace[Len(trace)].inv = 1
              /\ exit_code = IF trace[Len(trace)].out = "exc" THEN 1 ELSE 0
        /\ proc # "exited" => exit_code = 0

\* C13 witness: `cute` without arguments and "default" registered: the
\* command of default ran and the process exited with status 0.
C13_Witness ==
    /\ argv = <<>> /\ Defined("default")
    /\ proc = "exited" /\ exit_code = 0
    /\ Succeeded(1, "main")
    /\ UnitEvents(1, "main")[1].args = <<"a">>

\* The invocation r failed in its main unit, and its name_err hook is the
\* list ["e", Throw()], whose command e succeeded.
MainFailedErrRethrows(r) ==
    /\ Failed(r.inv, "main")
    /\ (r.name \o "_err") \in DOMAIN tasks
    /\ tasks[r.name \o "_err"] = List(<<Str(<<"e">>), ThrowObj("None")>>)
    /\ Len(UnitEvents(r.inv, "err")) >= 1
    /\ UnitEvents(r.inv, "err")[1].out = "ok"

\* C14 as claimed: if the main unit of T fails with E and T_err is a list
\* whose earlier children succeed and whose last child is Throw(), run(T)
\* propagates E itself, after T_fin has executed.
C14_RethrowPropagatesOriginal ==
    \A j \in Rets :
        LET r == trace[j] IN
        MainFailedErrRethrows(r) =>
            /\ Slots(r.inv) = IfDefined(r.name, "pre") \o <<"main", "err">>
                              \o IfDefined(r.name, "fin")
            /\ r.out = "exc"
            /\ r.e = FailureOf(r.inv, "main")

\* C14 amended: under the same conditions the Throw() re-raises E out of
\* T_err, T_fin (if registered) is executed next, and run(T) propagates E
\* itself when T_fin did not fail, the failure of T_fin when it did.
C14_RethrowPropagatesOriginalUnlessFinFails ==
    \A j \in Rets :
        LET r == trace[j] IN
        MainFailedErrRethrows(r) =>
            /\ Slots(r.inv) = IfDefined(r.name, "pre") \o <<"main", "err">>
                              \o IfDefined(r.name, "fin")
            /\ Len(UnitEvents(r.inv, "err")) = 2
            /\ UnitEvents(r.inv, "err")[2].ev = "throw"
            /\ UnitEvents(r.inv, "err")[2].e = FailureOf(r.inv, "main")
            /\ FailureOf(r.inv, "err") = FailureOf(r.inv, "main")
            /\ r.out = "exc"
            /\ r.e = IF Failed(r.inv, "fin") THEN FailureOf(r.inv, "fin")
                     ELSE FailureOf(r.inv, "main")

\* C14 witness: the main unit failed, e ran, Throw() re-raised, T_fin ran and
\* succeeded, and the original failure came out of run(T).
C14_Witness ==
    \E j \in Rets :
        /\ MainFailedErrRethrows(trace[j])
        /\ Succeeded(trace[j].inv, "fin")
        /\ trace[j].e = FailureOf(trace[j].inv, "main")
        /\ trace[j].e.cls = "CalledProcessError"

\* The slots a complete run(n) enters, given which of its units failed: the
\* try statement of run() (lines 455-464).
CompleteLifecycle(k, n) ==
    IfDefined(n, "pre") \o
    (IF Failed(k, "pre") THEN <<>>
     ELSE IfDefined(n, "main")
          \o (IF Failed(k, "main") THEN IfDefined(n, "err")
              ELSE IfDefined(n, "post"))
          \o IfDefined(n, "fin"))

\* The hooks of T declared as the name of the task U.
HooksNamingU ==
    {h \in {"pre", "err", "post", "fin"} :
        /\ ("T" \o Suffix(h)) \in DOMAIN tasks
        /\ tasks["T" \o Suffix(h)] = Str(<<"U">>)}

\* C15: when a hook of T is the name of a registered task U, executing the
\* hook runs the complete lifecycle of U (U_pre, U, U_post or U_err, U_fin, as
\* run("U") orders them), nested in the hook: everything between entering and
\* leaving the hook belongs to run("U"), run("U") is over when the hook is
\* left, the hook ends as run("U") ended, and T enters its next unit only
\* after that.
C15_HookRunsNestedLifecycle ==
    \A h \in HooksNamingU :
    \A i \in 1..Len(trace) :
        (trace[i].ev = "task" /\ trace[i].inv = 1 /\ trace[i].slot = h) =>
            /\ trace[i].args = <<>>
            /\ \A k \in (i + 1)..Len(trace) :
                  trace[k].inv = 1 =>
                      /\ \E d \in Dones(1, h) : d <= k
                      /\ \E r \in Rets : r < k /\ trace[r].inv = 2
            /\ \A d \in Dones(1, h) :
                  /\ \A k \in (i + 1)..(d - 1) : trace[k].inv = 2
                  /\ trace[d - 1].ev = "ret" /\ trace[d - 1].name = "U"
                  /\ trace[d - 1].args = <<>>
                  /\ trace[d].out = trace[d - 1].out
                  /\ trace[d].e = trace[d - 1].e
                  /\ Slots(2) = CompleteLifecycle(2, "U")
                  /\ NamesMatch(2, "U")
                  /\ \A s \in {"pre", "main", "err", "post", "fin"} :
                        \A t \in Dones(2, s) : i < t /\ t < d

\* C15 witness: T_pre = "U"; U_pre, U, U_post and U_fin ran inside T_pre, and
\* the main unit of T was entered afterwards.
C15_Witness ==
    /\ argv # <<>> /\ argv[1] = "T"
    /\ HooksNamingU = {"pre"}
    /\ Slots(2) = <<"pre", "main", "post", "fin">>
    /\ Succeeded(1, "pre")
    /\ \E i \in 1..Len(trace) :
          trace[i].ev = "task" /\ trace[i].inv = 1 /\ trace[i].slot = "main"

\* C16 as claimed: conf["curr_task"] is saved when do_run enters a task and
\* restored when it leaves it: when a do_run call ends, by returning or by
\* propagating a failure, curr_task is again the value it had just before
\* the task was entered.
C16_CurrTaskRestored ==
    [][(TopIs("do_run") /\ Top.pc = "body" /\ ret.st # "run")
          => Get(conf', "curr_task") = Top.saved]_vars

\* `cute T ...` with T declared as the list [x, "a"].
TRunsFirst(x) == TIs(List(<<x, A>>))

\* C17 as claimed: a declaration that is an exception instance, an exception
\* type or None is run as a Throw: executing it as the first child of a list
\* raises, and the list ends there.
C17_ExceptionsAndNoneThrow ==
    \A x \in {ExcInst, ExcClass, NoneDecl} :
        TRunsFirst(x) =>
            /\ \A i \in 1..Len(UnitEvents(1, "main")) :
                  UnitEvents(1, "main")[i].ev = "throw"
            /\ \A j \in Dones(1, "main") : trace[j].out = "exc"

\* C17 amended: an exception instance or an exception type is run as a
\* Throw: executing it raises (the instance, or a new instance of the type;
\* TypeError when it is handed arguments) and the list ends there.  None is
\* not converted: executing it does nothing and the list goes on.
C17_ExceptionsThrowNoneIsSkipped ==
    /\ \A x \in {ExcInst, ExcClass} :
          TRunsFirst(x) =>
              LET u == UnitEvents(1, "main") IN
              /\ Len(u) <= 1
              /\ \A i \in 1..Len(u) : u[i].ev = "throw" /\ u[i].out = "exc"
              /\ \A j \in Dones(1, "main") :
                    /\ trace[j].out = "exc"
                    /\ Len(u) = 1 /\ trace[j].e = u[1].e
                    /\ IF Args1 # <<>> THEN trace[j].e.cls = "TypeError"
                       ELSE IF x = ExcInst THEN trace[j].e = ConfiguredExc
                       ELSE trace[j].e.cls = "Exception" /\ trace[j].e.id > 0
    /\ TRunsFirst(NoneDecl) =>
          LET u == UnitEvents(1, "main") IN
          /\ \A i \in 1..Len(u) : u[i].ev = "cmd"
          /\ \A j \in Dones(1, "main") :
                /\ Len(u) = 1 /\ u[1].args = <<"a">> \o Args1
                /\ trace[j].out = u[1].out

\* C17 witness: `cute T` with T = [Exception("..."), "a"]: the list failed
\* with that instance and `a` did not run.
C17_Witness ==
    /\ TRunsFirst(ExcInst) /\ Args1 = <<>>
    /\ Failed(1, "main")
    /\ FailureOf(1, "main") = ConfiguredExc
    /\ Len(UnitEvents(1, "main")) = 1

\* C18 as claimed: executing a declaration that no matcher converts and that
\* is not callable (5, 0, False) fails at execution time.
C18_UnsupportedAlwaysFails ==
    \A x \in {IntDecl(5), IntDecl(0), BoolDecl(FALSE)} :
        TRunsFirst(x) =>
            /\ UnitEvents(1, "main") = <<>>
            /\ \A j \in Dones(1, "main") : trace[j].out = "exc"

\* C18 amended: such a declaration fails when it is executed, with an
\* Exception raised by run_task, if it is truthy (5, True); a falsy one (0,
\* False) is passed over without failure and the list goes on.  Nothing fails
\* before the task is entered.
C18_UnsupportedFailsWhenTruthy ==
    /\ proc = "init" => nexc = 0 /\ ret = Running
    /\ \A x \in {IntDecl(5), BoolDecl(TRUE)} :
          TRunsFirst(x) =>
              /\ UnitEvents(1, "main") = <<>>
              /\ nexc > 0 => trace # <<>> /\ trace[1].ev = "task"
              /\ \A j \in Dones(1, "main") :
                    /\ trace[j].out = "exc"
                    /\ trace[j].e.cls = "Exception" /\ trace[j].e.id > 0
    /\ \A x \in {IntDecl(0), BoolDecl(FALSE)} :
          TRunsFirst(x) =>
              LET u == UnitEvents(1, "main") IN
              /\ \A i \in 1..Len(u) : u[i].ev = "cmd"
              /\ \A j \in Dones(1, "main") :
                    /\ Len(u) = 1 /\ u[1].args = <<"a">> \o Args1
                    /\ trace[j].out = u[1].out

\* C18 witness: `cute T` with T = [5, "a"]: T was entered, then failed with
\* the Exception of run_task, and `a` did not run.
C18_Witness ==
    /\ TRunsFirst(IntDecl(5))
    /\ Failed(1, "main")
    /\ FailureOf(1, "main").cls = "Exception"
    /\ UnitEvents(1, "main") = <<>>
    /\ proc = "exited" /\ exit_code = 1

\* semver_bumper(old, part) was called, with part given or left to default.
BumperCalled(old, part) ==
    /\ call.fn = "semver_bumper" /\ call.done /\ call.old = old
    /\ call.args = <<part>> \/ (part = <<"patch">> /\ call.args = <<>>)

\* MAJOR.MINOR.PATCH written out.
Written(major, minor, patch) ==
    <<Numerals[major + 1], ".", Numerals[minor + 1], ".", Numerals[patch + 1]>>

\* C19: for old = MAJOR.MINOR.PATCH, semver_bumper(old, "patch") and
\* semver_bumper(old) return MAJOR.MINOR.(PATCH+1), "minor" gives
\* MAJOR.(MINOR+1).0 and "major" gives (MAJOR+1).0.0; a part that is a
\* well-formed version is returned as it is whatever old is; a part that is
\* neither the name of a bump nor a well-formed version makes the call fail.
C19_SemverBumper ==
    /\ \A a \in 0..MaxPart, b \in 0..MaxPart, c \in 0..MaxPart :
          LET old == Written(a, b, c) IN
          /\ BumperCalled(old, <<"patch">>) =>
                ret.st = "ok" /\ ret.val = Written(a, b, c + 1)
          /\ BumperCalled(old, <<"minor">>) =>
                ret.st = "ok" /\ ret.val = Written(a, b + 1, 0)
          /\ BumperCalled(old, <<"major">>) =>
                ret.st = "ok" /\ ret.val = Written(a + 1, 0, 0)
    /\ \A part \in {<<"0", ".", "9", ".", "6">>,
                    <<"2", ".", "0", ".", "0", "-", "rc", ".", "1">>} :
          BumperCalled(call.old, part) => ret.st = "ok" /\ ret.val = part
    /\ \A part \in {<<"foo">>, <<"1", ".", "2">>, <<>>,
                    <<"v", "1", ".", "0", ".", "0">>} :
          BumperCalled(call.old, part) =>
              ret.st = "exc" /\ ret.e.cls = "ValueError"

\* C19 witness: semver_bumper("1.2.2", "minor") returned "1.3.0".
C19_Witness ==
    /\ BumperCalled(<<"1", ".", "2", ".", "2">>, <<"minor">>)
    /\ ret = Returned(<<"1", ".", "3", ".", "0">>)

\* The file a Bump call names.
BumpedFile ==
    IF call.file = <<"{version_file}">> THEN Get(conf, "version_file")
    ELSE call.file[1]

\* text is L + old + R with old the literal of the first place where
\* `__version__ = ` is followed by a quote and a character that is no quote.
FirstLiteral(text, L, old, R) ==
    \E i \in 1..Len(text), j \in 1..Len(text) :
        /\ i + 2 <= j
        /\ text[i] = VersionKey /\ text[i + 1] \in Quotes
        /\ \A k \in (i + 2)..j : text[k] \notin Quotes
        /\ j = Len(text) \/ text[j + 1] \in Quotes
        /\ \A k \in 1..(i - 1) :
              ~(/\ text[k] = VersionKey /\ text[k + 1] \in Quotes
                /\ text[k + 2] \notin Quotes)
        /\ L = SubSeq(text, 1, i + 1)
        /\ old = SubSeq(text, i + 2, j)
        /\ R = SubSeq(text, j + 1, Len(text))

\* C20: a Bump call that succeeds on a file whose text is L + old + R, old
\* being the literal of the first `__version__ = "..."` match, leaves the
\* text L + new + R, with conf["old_version"] = old and conf["version"] =
\* new, new being what the bumper returned for old; a call that fails (the
\* bumper rejected the version) leaves every file text and conf["version"]
\* as they were.
C20_BumpRewritesFirstLiteral ==
    [][(call.fn = "Bump" /\ ~call.done) =>
          IF ret'.st = "ok"
            THEN LET text == files[BumpedFile]
                     old  == conf'["old_version"]
                     new  == conf'["version"]
                 IN  /\ \E n \in 0..Len(text) :
                           FirstLiteral(text, SubSeq(text, 1, n), old,
                                        SubSeq(text, n + Len(old) + 1, Len(text)))
                     /\ \A n \in 0..Len(text) :
                           FirstLiteral(text, SubSeq(text, 1, n), old,
                                        SubSeq(text, n + Len(old) + 1, Len(text)))
                             => files'[BumpedFile] =
                                   SubSeq(text, 1, n) \o new
                                     \o SubSeq(text, n + Len(old) + 1, Len(text))
                     /\ new = apply_bumper(old, call.args).v
                     /\ apply_bumper(old, call.args).ok
            ELSE /\ files' = files
                 /\ Get(conf', "version") = Get(conf, "version")
      ]_vars

\* C20 witness: `bump minor` is over on a file with an empty literal, then
\* '1.2.0', then '9.9.9': the second line alone was rewritten, to '1.3.0'.
C20_Witness ==
    /\ call.fn = "Bump" /\ call.done /\ call.args = <<(<<"minor">>)>>
    /\ ret.st = "ok"
    /\ Get(conf, "old_version") = <<"1", ".", "2", ".", "0">>
    /\ Get(conf, "version") = <<"1", ".", "3", ".", "0">>
    /\ files["pkg/__init__.py"] =
          <<VersionKey, "\"", "\"", "\n",
            VersionKey, "'", "1", ".", "3", ".", "0", "'", "\n",
            VersionKey, "'", "9", ".", "9", ".", "9", "'", "\n">>


----------------------------------------------------------------------------
(* C21, C22: xcute.utils *)

\* x is not after y in the natural order: the key of y is not below that of x
KeyLe(x, y) == ListLt(natsorted_key(y), natsorted_key(x)) = "ge"

\* out is seq in natural order, elements of equal keys in their input order
StableSorted(seq, out) ==
    /\ Len(out) = Len(seq)
    /\ \E p \in [1..Len(seq) -> 1..Len(seq)] :
          /\ \A i, j \in 1..Len(seq) : p[i] = p[j] => i = j
          /\ \A i \in 1..Len(seq) : out[i] = seq[p[i]]
          /\ \A i, j \in 1..Len(seq) :
                i < j => /\ KeyLe(out[i], out[j])
                         /\ KeyLe(out[j], out[i]) => p[i] < p[j]

\* C21: natsorted(seq) never fails for a list of strings, and returns the
\* elements of seq in natural order (digit runs by their integer value, the
\* other runs without regard to case), elements of equal keys in their input
\* order.
C21_NatsortedNeverFails ==
    (call.fn = "natsorted" /\ call.done)
      => /\ ret.st = "ok"
         /\ StableSorted(call.seq, ret.val)

\* C22: with no_subdir=True (no_dir left at False, as clean() calls it)
\* iter_files yields no path one of whose ancestors is matched by the patterns
\* and not ignored; with any options it yields each path at most once.
C22_NoSubdirSkipsDescendants ==
    (call.fn = "iter_files" /\ call.done)
      => /\ (call.no_subdir /\ ~call.no_dir)
              => \A i \in 1..Len(ret.val) :
                    \A a \in {c \in PathPool :
                                /\ \E g \in DOMAIN call.globs :
                                      Contains(call.globs[g], c)
                                /\ c \notin call.ignored} :
                       a \notin parents(ret.val[i])
         /\ Distinct(ret.val)


----------------------------------------------------------------------------
(* C23: the hooks around the try statement of run() *)

\* How often invocation k entered a slot.
TimesRun(k, slot) ==
    Cardinality({i \in 1..Len(Slots(k)) : Slots(k)[i] = slot})

\* What holds of the _err hook in every invocation, over or not.
ErrHookDiscipline(k) ==
    /\ TimesRun(k, "err") <= 1
    /\ TimesRun(k, "err") = 1 => Failed(k, "main")
    /\ (Failed(k, "pre") \/ Failed(k, "post")) => TimesRun(k, "err") = 0
    /\ ~(TimesRun(k, "err") = 1 /\ TimesRun(k, "post") = 1)

Invocations == {trace[i].inv : i \in 1..Len(trace)}

\* C23 as claimed: within one run(T), T_err is executed at most once and only
\* when the main unit failed; a failure of T_pre or T_post is never offered
\* to T_err; T_err and T_post are never both executed; a failure raised by
\* T_err or T_post itself propagates from run(T) after T_fin has executed.
C23_HookFailurePropagates ==
    /\ \A k \in Invocations : ErrHookDiscipline(k)
    /\ \A j \in Rets :
          LET r == trace[j] IN
          \A slot \in {"err", "post"} :
              Failed(r.inv, slot) =>
                  /\ r.out = "exc" /\ r.e = FailureOf(r.inv, slot)
                  /\ Defined(r.name \o "_fin") => Dones(r.inv, "fin") # {}

\* C23 amended: within one run(T), T_err is executed at most once and only
\* when the main unit failed; a failure of T_pre or T_post is never offered
\* to T_err; T_err and T_post are never both executed; when T_err or T_post
\* itself fails, T_fin (if registered) is executed and run(T) propagates a
\* failure: the one the hook raised when T_fin did not fail, the failure of
\* T_fin when it did.
C23_HookFailurePropagatesUnlessFinFails ==
    /\ \A k \in Invocations : ErrHookDiscipline(k)
    /\ \A j \in Rets :
          LET r == trace[j] IN
          \A slot \in {"err", "post"} :
              Failed(r.inv, slot) =>
                  /\ r.out = "exc"
                  /\ r.e = IF Failed(r.inv, "fin") THEN FailureOf(r.inv, "fin")
                           ELSE FailureOf(r.inv, slot)
                  /\ Defined(r.name \o "_fin") => Dones(r.inv, "fin") # {}
                  /\ r.e.id # 0

\* C23 witness: the main unit of T failed, T_err ran once and raised a failure
\* of its own, T_fin ran and succeeded, and run(T) propagated the failure of
\* T_err.
C23_Witness ==
    \E j \in Rets :
        LET r == trace[j] IN
        /\ r.name = "T" /\ Failed(r.inv, "main") /\ Failed(r.inv, "err")
        /\ FailureOf(r.inv, "err") # FailureOf(r.inv, "main")
        /\ Succeeded(r.inv, "fin")
        /\ Slots(r.inv)[Len(Slots(r.inv))] = "fin"
        /\ r.out = "exc" /\ r.e = FailureOf(r.inv, "err")


----------------------------------------------------------------------------
(* C24: falsy declarations *)

Falsy(n) == n \in DOMAIN tasks /\ ~Truthy(tasks[n])

\* C24 as claimed: when T is registered with a falsy declaration, run(T)
\* executes nothing for the main step, runs T_pre, T_post and T_fin (those
\* registered) and returns normally; when T_err is registered with a falsy
\* declaration and the main unit fails, T_err is not executed and run(T)
\* propagates the original failure of T.
C24_FalsyIsNotRegistered ==
    \A j \in Rets :
        LET r == trace[j] IN
        /\ Falsy(r.name) =>
              /\ Slots(r.inv) = IfDefined(r.name, "pre") \o IfDefined(r.name, "post")
                                \o IfDefined(r.name, "fin")
              /\ r.out = "ok"
        /\ (Falsy(r.name \o "_err") /\ Failed(r.inv, "main")) =>
              /\ TimesRun(r.inv, "err") = 0
              /\ r.out = "exc" /\ r.e = FailureOf(r.inv, "main")

\* C24 amended: when T is registered with a falsy declaration, run(T) does
\* not fail with unknown-task and executes nothing for the main step; it runs
\* T_pre, then, unless T_pre failed, T_post and T_fin (those registered), and
\* returns normally when none of them failed, else propagates the failure of
\* the hook that failed last.  When T_err is registered with a falsy
\* declaration and the main unit fails, T_err is not executed, T_fin is, and
\* run(T) propagates the original failure of T, or the failure of T_fin when
\* T_fin failed.
C24_FalsyIsNotRegisteredHooksMayFail ==
    \A j \in Rets :
        LET r == trace[j] IN
        /\ Falsy(r.name) =>
              /\ TimesRun(r.inv, "main") = 0 /\ TimesRun(r.inv, "err") = 0
              /\ Slots(r.inv) =
                    IF Failed(r.inv, "pre") THEN <<"pre">>
                    ELSE IfDefined(r.name, "pre") \o IfDefined(r.name, "post")
                         \o IfDefined(r.name, "fin")
              /\ NamesMatch(r.inv, r.name)
              /\ NoneFailed(r.inv) => r.out = "ok"
              /\ ~NoneFailed(r.inv) =>
                    /\ r.out = "exc"
                    /\ r.e = IF Failed(r.inv, "fin") THEN FailureOf(r.inv, "fin")
                             ELSE IF Failed(r.inv, "post")
                               THEN FailureOf(r.inv, "post")
                             ELSE FailureOf(r.inv, "pre")
        /\ (Falsy(r.name \o "_err") /\ Failed(r.inv, "main")) =>
              /\ TimesRun(r.inv, "err") = 0
              /\ Slots(r.inv) = IfDefined(r.name, "pre") \o <<"main">>
                                \o IfDefined(r.name, "fin")
              /\ r.out = "exc"
              /\ r.e = IF Failed(r.inv, "fin") THEN FailureOf(r.inv, "fin")
                       ELSE FailureOf(r.inv, "main")

\* C24 witness: T is registered as None with T_pre, T_post and T_fin; run(T)
\* ran the three hooks, nothing for T, and returned normally.
C24_Witness ==
    \E j \in Rets :
        LET r == trace[j] IN
        /\ r.name = "T" /\ "T" \in DOMAIN tasks /\ tasks["T"] = NoneDecl
        /\ Slots(r.inv) = <<"pre", "post", "fin">>
        /\ NoneFailed(r.inv) /\ r.out = "ok"


----------------------------------------------------------------------------
(* C25: termination *)

\* The registry keys a declaration names as a string: itself, or inside a
\* list, a Skip or a Try.
RECURSIVE Refs(_)
Refs(d) ==
    CASE d.t = "str"  -> IF IsTaskName(d, tasks) THEN {d.s[1]} ELSE {}
      [] d.t = "list" -> UNION {Refs(d.items[i]) : i \in 1..Len(d.items)}
      [] d.t = "Skip" -> Refs(d.task)
      [] d.t = "Try"  -> UNION {Refs(d.tasks[i]) : i \in 1..Len(d.tasks)}
      [] OTHER        -> {}

\* The edges of the reference graph from n: what n or one of its hooks names.
Calls(n) ==
    UNION {Refs(tasks[n \o s]) :
             s \in {x \in {"", "_pre", "_err", "_post", "_fin"} :
                      n \o x \in DOMAIN tasks}}

RECURSIVE ReachedFrom(_, _)
ReachedFrom(S, k) ==
    IF k = 0 THEN S
    ELSE ReachedFrom(S \cup UNION {Calls(n) : n \in S}, k - 1)

Acyclic ==
    \A n \in DOMAIN tasks :
        n \notin ReachedFrom(Calls(n), Cardinality(DOMAIN tasks))

\* The dispatch reached the recursion limit.
LimitHit ==
    \/ ret.e.cls = "RecursionError"
    \/ \E i \in 1..Len(trace) : trace[i].e.cls = "RecursionError"

\* C25: when the reference graph between the task names of the registry is
\* acyclic, the program started on it eventually reaches its end, run()
\* having returned or propagated; and the dispatch reaches the recursion
\* limit only when the graph has a cycle.
C25_AcyclicTerminates ==
    /\ [](Acyclic => <>(proc = "exited"))
    /\ [](LimitHit => ~Acyclic)

\* C25 witness: T runs U, U runs W, no name is reached from itself, and the
\* program is over after three nested calls of run().
C25_Witness ==
    /\ Acyclic /\ proc = "exited" /\ nrun >= 3
    /\ \E i, j, k \in 1..Len(trace) :
          /\ i < j /\ j < k
          /\ trace[i].ev = "task" /\ trace[i].name = "T"
          /\ trace[j].ev = "task" /\ trace[j].name = "U"
          /\ trace[k].ev = "task" /\ trace[k].name = "W"
          /\ \A m \in 1..Len(trace) :
                (trace[m].ev = "ret" /\ trace[m].name = "T") => m > k

====
